---- MODULE Spec2Model ----
(***************************************************************************)
(* Model of the NACC disclosure pipeline: the page-fragment merger of      *)
(* src/src/llm_parser.py (LLMParser) and the relational normalizer and     *)
(* summary aggregation of src/src/json_to_csv.py (JSONToCSVConverter).     *)
(* together with the driver and the OCR wrapper of src/app.py.             *)
(*                                                                         *)
(* Value encoding.  A JSON / Python scalar is a pair <<tag, payload>>:     *)
(*   number-typed fields:  <<"int", n>>, <<"null", 0>> (None / SQL NULL),  *)
(*                         <<"absent", 0>> (key missing), <<"empty", 0>>   *)
(*                         (the "" default), <<"NONE", 0>> (sentinel)      *)
(*   string-typed fields:  <<"str", s>>, <<"null", "">>, <<"absent", "">>  *)
(* An optional dict (submitter_info, spouse_info) is a sequence of length  *)
(* 0 (None) or 1.  Numeric strings read from the CSV registries are        *)
(* sequences of decimal digits, so that int() and str() are conversions.   *)
(***************************************************************************)
EXTENDS Integers, Sequences, FiniteSets, TLC

VARIABLES converter, sql, conv_pc, calls, json_dir, pfd,
          page_results, merged, parse_pc, in_flight, max_workers,
          today, replica,
          doc_status, driver_pc, writers, parallel_docs, registry,
          ocr, profile

vars == <<converter, sql, conv_pc, calls, json_dir, pfd,
          page_results, merged, parse_pc, in_flight, max_workers,
          today, replica, doc_status, driver_pc, writers, parallel_docs, registry,
          ocr, profile>>

conv_vars == <<converter, sql, conv_pc, calls, json_dir, pfd>>

parse_vars == <<page_results, merged, parse_pc, in_flight, max_workers>>

\* The wall clock and the second converter of a repeated run
clock_vars == <<today, replica>>

\* The driver of app.py
driver_vars == <<doc_status, driver_pc, writers, parallel_docs, registry>>

\* clock, driver, the OCR call in progress and the extractor profile applied
aux_vars == <<clock_vars, driver_vars, ocr, profile>>

-----------------------------------------------------------------------------
(* Bounds *)

MaxCalls == 2

MaxAssets == 2

MaxPages == 3

MaxRegistryRows == 2

MaxWorkers == 2

MaxPoolPages == 2

MaxDays == 2

MaxDocs == 3

MaxParallelDocs == 2

-----------------------------------------------------------------------------
(* Scalars *)

Num(n) == <<"int", n>>

NNull == <<"null", 0>>

NAbsent == <<"absent", 0>>

NEmpty == <<"empty", 0>>

NNone == <<"NONE", 0>>

Str(s) == <<"str", s>>

SNull == <<"null", "">>

SAbsent == <<"absent", "">>

IsInt(v) == v[1] = "int"

\* Python truthiness of a number-typed value: None, "" and 0 are falsy.
NTruthy(v) == v[1] = "int" /\ v[2] # 0

\* Python truthiness of a string-typed value: None and "" are falsy.
STruthy(v) == v[1] = "str" /\ v[2] # ""

\* `x.get(key, 0) or 0`
OrZero(v) == IF NTruthy(v) THEN v[2] ELSE 0

\* `total or "NONE"`
OrNONE(n) == IF n # 0 THEN Num(n) ELSE NNone

\* dict.get(key, default): the default only replaces a missing key.
NGet(v, default) == IF v[1] = "absent" THEN default ELSE v

SGet(v, default) == IF v[1] = "absent" THEN default ELSE v

RECURSIVE SumSeq(_)
SumSeq(s) == IF s = <<>> THEN 0 ELSE Head(s) + SumSeq(Tail(s))

\* sum(F(x) for x in s if P(x))
SumOver(s, F(_), P(_)) ==
    SumSeq([i \in 1..Len(s) |-> IF P(s[i]) THEN F(s[i]) ELSE 0])

\* sum(1 for x in s if P(x))
CountOver(s, P(_)) == Len(SelectSeq(s, P))

\* int() of a decimal string
RECURSIVE IntOf(_)
IntOf(ds) == IF ds = <<>> THEN 0 ELSE 10 * IntOf(SubSeq(ds, 1, Len(ds) - 1)) + ds[Len(ds)]

\* str() of a non-negative int
RECURSIVE StrOf(_)
StrOf(n) == IF n < 10 THEN <<n>> ELSE StrOf(n \div 10) \o <<n % 10>>

-----------------------------------------------------------------------------
(* Canonical documents offered to the normalizer *)

NoInfo == <<>>

Info(title, first, last) ==
    <<[title |-> title, first_name |-> first, last_name |-> last,
       age |-> NNull, positions |-> <<>>, old_names |-> <<>>]>>

Asset(type, val, os, osp, oc, name) ==
    [index |-> NAbsent, asset_type_id |-> type, asset_name |-> name,
     valuation |-> val, owner_by_submitter |-> os, owner_by_spouse |-> osp,
     owner_by_child |-> oc, land_info |-> <<>>, building_info |-> <<>>,
     vehicle_info |-> <<>>]

Statement(type, vs, vsp, vc) ==
    [statement_type_id |-> type, valuation_submitter |-> vs,
     valuation_spouse |-> vsp, valuation_child |-> vc]

Relative(first, last, rel, dead) ==
    [index |-> NAbsent, relationship_id |-> rel, title |-> SAbsent,
     first_name |-> first, last_name |-> last, is_death |-> dead]

Detail(type, note) ==
    [statement_detail_type_id |-> type, index |-> NAbsent, note |-> note]

Doc(doc_id, nacc_id, sub, sp, rels, stmts, dets, assets) ==
    [doc_id |-> doc_id, nacc_id |-> nacc_id, submitter_info |-> sub,
     spouse_info |-> sp, relatives |-> rels, statements |-> stmts,
     statement_details |-> dets, assets |-> assets, null_lists |-> {}]

\* One asset per type code of interest: codes of the dispatch lists, a code
\* only the summary ranges know (5), a code above 22, a missing and a null
\* code.
AssetChoices ==
    << Asset(Num(1), Num(100), TRUE, FALSE, FALSE, Str("deed 7")),
       Asset(Num(5), Num(10), FALSE, TRUE, FALSE, Str("plot")),
       Asset(Num(37), NNull, TRUE, TRUE, FALSE, Str("townhouse")),
       Asset(Num(18), Num(0), TRUE, FALSE, FALSE, Str("car")),
       Asset(Num(39), Num(50), TRUE, FALSE, TRUE, Str("gold")),
       Asset(NAbsent, NAbsent, FALSE, FALSE, FALSE, SAbsent),
       Asset(NNull, Num(3), FALSE, FALSE, TRUE, SNull) >>

\* The asset lists of the documents: no asset, and up to MaxAssets
\* neighbours of AssetChoices, starting anywhere and wrapping around.
AssetLists ==
    {[k \in 1..n |-> AssetChoices[((first + k - 2) % Len(AssetChoices)) + 1]] :
        first \in 1..Len(AssetChoices), n \in 0..MaxAssets}

StatementLists ==
    { <<Statement(Num(1), Num(40), NNull, NAbsent)>>,
      <<Statement(Num(1), Num(40), Num(5), Num(0)),
        Statement(Num(5), Num(2), Num(5), NNull)>> }

RelativeLists ==
    { <<Relative(Str("Kim"), Str("Lee"), Num(4), FALSE)>>,
      <<Relative(Str("Kim"), Str("Lee"), Num(1), FALSE),
        Relative(Str("Pat"), SNull, Num(2), TRUE)>> }

DetailLists ==
    { <<Detail(Num(1), SNull)>>, <<Detail(Num(9), Str("memo")), Detail(Num(1), Str(""))>> }

EmbeddedNaccIds == {1, 2, 3}

\* Documents that vary one part of the canonical record at a time.
DocChoices ==
    {Doc("E1", 1, NoInfo, NoInfo, <<>>, <<>>, <<>>, a) : a \in AssetLists}
    \cup {Doc("E2", n, Info(Str("Mr"), Str("Al"), SNull), NoInfo, <<>>, s, <<>>, <<>>) :
             n \in EmbeddedNaccIds, s \in StatementLists}
    \cup {Doc("E3", n, NoInfo, Info(Str("Ms"), Str("Bo"), Str("Ray")), r, <<>>, d, <<>>) :
             n \in EmbeddedNaccIds, r \in RelativeLists, d \in DetailLists}

\* Documents offered together with an explicit submitter_id.
SuppliedDocChoices ==
    {Doc("E4", 2, Info(Str("Mr"), Str("Al"), SNull), Info(Str("Ms"), Str("Bo"), Str("Ray")),
         <<>>, <<>>, <<>>, <<Asset(Num(1), Num(100), TRUE, FALSE, FALSE, Str("deed 7"))>>)}

SuppliedSubmitterIds == {1, 5}

\* A canonical document whose "assets" is null, as the LLM is told it may
\* answer for a kind of data it did not find (null_lists names the list
\* fields that are null instead of a list).
MalformedDocChoices ==
    {[Doc("E5", 3, Info(Str("Mr"), Str("Al"), SNull), Info(Str("Ms"), Str("Bo"), Str("Ray")),
          <<Relative(Str("Kim"), Str("Lee"), Num(4), FALSE)>>,
          <<Statement(Num(1), Num(40), NNull, NAbsent)>>, <<>>, <<>>)
        EXCEPT !.null_lists = {"assets"}]}

-----------------------------------------------------------------------------
(* Reference registries (load_input_data).  Keys are the strings of the    *)
(* CSV files.                                                              *)

DetailRow(title, first, last, sid) ==
    [title |-> title, first_name |-> first, last_name |-> last, submitter_id |-> sid]

SubmitterRow(title, first, last) ==
    [title |-> title, first_name |-> first, last_name |-> last]

\* nacc_id "1": title in both registries, first_name only in the submitter
\* registry, last_name in neither.  nacc_id "2": no submitter_id column
\* value, so the submitter registry is looked up by the surrogate key.
input_nacc_detail_rows ==
    { <<<<1>>, DetailRow("Mr", "", "", <<5>>)>>,
      <<<<2>>, DetailRow("", "Bob", "Lee", <<>>)>> }

input_submitter_info_rows ==
    { <<<<5>>, SubmitterRow("Dr", "Ann", "")>>,
      <<<<1>>, SubmitterRow("Ms", "  ", "Roe")>> }

\* dict.get(key, {}) followed by row.get(column, '')
RegistryGet(rows, key, column) ==
    IF \E r \in rows : r[1] = key
    THEN (CHOOSE r \in rows : r[1] = key)[2][column]
    ELSE IF column = "submitter_id" THEN <<>> ELSE ""

\* Rows of the document registry CSV: doc_id, nacc_id and doc_location_url
\* columns as text.  "02" and "" are nacc_id texts int() treats specially.
DocInfoRow(doc_id, nacc_id, url) ==
    [doc_id |-> doc_id, nacc_id |-> nacc_id, doc_location_url |-> url]

DocInfoRowChoices ==
    {DocInfoRow(d, n, u) : d \in {"D1", "D2"}, n \in {<<1>>, <<0, 2>>, <<>>},
                           u \in {"a.pdf", "b.pdf", ""}}

JsonNames == {"a.json", "b.json"}

\* os.path.splitext(doc_location_url)[0] + '.json'
JsonFilenameOf(url) ==
    CASE url = "a.pdf" -> "a.json"
      [] url = "b.pdf" -> "b.json"

\* Canonical documents found in the JSON directory; their embedded doc_id
\* and nacc_id are what the LLM stage wrote, not what the registry says.
RegistryDocChoices ==
    { Doc("D2", 9,
          <<[title |-> Str("Mr"), first_name |-> Str("Al"), last_name |-> SNull,
             age |-> Num(50),
             positions |-> <<[index |-> NAbsent, position |-> Str("MP")]>>,
             old_names |-> <<[kind |-> "str", index |-> NAbsent, first_name |-> Str("Alf")]>>]>>,
          <<[title |-> Str("Ms"), first_name |-> Str("Bo"), last_name |-> Str("Ray"),
             age |-> NNull,
             positions |-> <<[index |-> Num(1), position |-> Str("CEO")]>>,
             old_names |-> <<[kind |-> "dict", index |-> Num(2), first_name |-> SAbsent]>>]>>,
          <<Relative(Str("Kim"), Str("Lee"), Num(4), TRUE)>>,
          <<Statement(Num(1), Num(40), NNull, NAbsent)>>,
          <<Detail(Num(9), Str("memo"))>>,
          <<Asset(Num(1), Num(100), TRUE, FALSE, FALSE, Str("deed 7")),
            Asset(Num(13), Num(20), FALSE, TRUE, FALSE, Str("condo")),
            Asset(Num(19), Num(5), FALSE, FALSE, TRUE, Str("bike")),
            Asset(Num(33), Num(1), TRUE, FALSE, FALSE, Str("gold"))>>),
      Doc("D1", 1, Info(Str("Mr"), Str("Al"), SNull), NoInfo, <<>>, <<>>, <<>>, <<>>) }

\* dict lookup in a set of <<key, value>> pairs holding one pair per key
DictHas(dict, key) == \E kv \in dict : kv[1] = key

DictGet(dict, key) == (CHOOSE kv \in dict : kv[1] = key)[2]

\* dict[key] = value
DictPut(dict, key, value) == {kv \in dict : kv[1] # key} \cup {<<key, value>>}

-----------------------------------------------------------------------------
(* JSONToCSVConverter: the accumulators and the surrogate-key counters *)

ConverterInit ==
    [statements |-> <<>>, statement_details |-> <<>>, assets |-> <<>>,
     asset_land_infos |-> <<>>, asset_building_infos |-> <<>>,
     asset_vehicle_infos |-> <<>>, asset_other_infos |-> <<>>,
     submitter_infos |-> <<>>, submitter_old_names |-> <<>>,
     submitter_positions |-> <<>>, spouse_infos |-> <<>>,
     spouse_old_names |-> <<>>, spouse_positions |-> <<>>,
     relative_infos |-> <<>>, summaries |-> <<>>,
     asset_id_counter |-> 1, relative_id_counter |-> 1,
     submitter_id_counter |-> 1, spouse_id_counter |-> 1,
     input_doc_info |-> {}, input_doc_order |-> <<>>,
     input_nacc_detail |-> input_nacc_detail_rows,
     input_submitter_info |-> input_submitter_info_rows]

\* "TRUE" if value else "FALSE"
FlagText(b) == IF b THEN "TRUE" ELSE "FALSE"

OldNameRows(old_names, ids) ==
    [i \in 1..Len(old_names) |->
        IF old_names[i].kind = "str"
        THEN ids @@ [index |-> Num(i), first_name |-> old_names[i].first_name]
        ELSE ids @@ [index |-> NGet(old_names[i].index, Num(i)),
                     first_name |-> SGet(old_names[i].first_name, Str(""))]]

PositionRows(positions, ids) ==
    [i \in 1..Len(positions) |->
        ids @@ [index |-> NGet(positions[i].index, Num(0)),
                position |-> SGet(positions[i].position, Str(""))]]

\* The mutant that appends a row of defaults for a missing submitter_info.
_process_submitter_RowOfDefaults(c, data, submitter_id, nacc_id) ==
    LET ids == [submitter_id |-> submitter_id, nacc_id |-> nacc_id,
                latest_submitted_date |-> today]
        submitter == IF data.submitter_info = <<>>
                     THEN [title |-> SAbsent, first_name |-> SAbsent, last_name |-> SAbsent,
                           age |-> NAbsent, positions |-> <<>>, old_names |-> <<>>]
                     ELSE data.submitter_info[1]
    IN [c EXCEPT
          !.submitter_infos = Append(@,
              ids @@ [title |-> SGet(submitter.title, Str("")),
                      first_name |-> SGet(submitter.first_name, Str("")),
                      last_name |-> SGet(submitter.last_name, Str("")),
                      age |-> NGet(submitter.age, NEmpty)]),
          !.submitter_positions = @ \o PositionRows(submitter.positions, ids),
          !.submitter_old_names = @ \o OldNameRows(submitter.old_names, ids)]

_process_submitter(c, data, submitter_id, nacc_id) ==
    IF data.submitter_info = <<>> THEN c
    ELSE LET submitter == data.submitter_info[1]
             ids == [submitter_id |-> submitter_id, nacc_id |-> nacc_id,
                     latest_submitted_date |-> today]
         IN [c EXCEPT
               !.submitter_infos = Append(@,
                   ids @@ [title |-> SGet(submitter.title, Str("")),
                           first_name |-> SGet(submitter.first_name, Str("")),
                           last_name |-> SGet(submitter.last_name, Str("")),
                           age |-> NGet(submitter.age, NEmpty)]),
               !.submitter_positions = @ \o PositionRows(submitter.positions, ids),
               !.submitter_old_names = @ \o OldNameRows(submitter.old_names, ids)]

\* The mutant that advances the counter before it takes the key.
_process_spouse_AdvancesFirst(c, data, submitter_id, nacc_id) ==
    IF data.spouse_info = <<>> THEN c
    ELSE LET spouse == data.spouse_info[1]
             spouse_id == c.spouse_id_counter + 1
             ids == [spouse_id |-> spouse_id, submitter_id |-> submitter_id,
                     nacc_id |-> nacc_id, latest_submitted_date |-> today]
         IN [c EXCEPT
               !.spouse_id_counter = @ + 1,
               !.spouse_infos = Append(@,
                   ids @@ [title |-> SGet(spouse.title, Str("")),
                           first_name |-> SGet(spouse.first_name, Str("")),
                           last_name |-> SGet(spouse.last_name, Str("")),
                           age |-> NGet(spouse.age, NEmpty)]),
               !.spouse_old_names = @ \o OldNameRows(spouse.old_names, ids),
               !.spouse_positions = @ \o PositionRows(spouse.positions, ids)]

_process_spouse(c, data, submitter_id, nacc_id) ==
    IF data.spouse_info = <<>> THEN c
    ELSE LET spouse == data.spouse_info[1]
             spouse_id == c.spouse_id_counter
             ids == [spouse_id |-> spouse_id, submitter_id |-> submitter_id,
                     nacc_id |-> nacc_id, latest_submitted_date |-> today]
         IN [c EXCEPT
               !.spouse_id_counter = @ + 1,
               !.spouse_infos = Append(@,
                   ids @@ [title |-> SGet(spouse.title, Str("")),
                           first_name |-> SGet(spouse.first_name, Str("")),
                           last_name |-> SGet(spouse.last_name, Str("")),
                           age |-> NGet(spouse.age, NEmpty)]),
               !.spouse_old_names = @ \o OldNameRows(spouse.old_names, ids),
               !.spouse_positions = @ \o PositionRows(spouse.positions, ids)]

_process_relatives(c, data, submitter_id, nacc_id) ==
    LET relatives == data.relatives
        row(i) ==
            [relative_id |-> c.relative_id_counter + i - 1,
             submitter_id |-> submitter_id, nacc_id |-> nacc_id,
             index |-> NGet(relatives[i].index, Num(1)),
             relationship_id |-> NGet(relatives[i].relationship_id, NEmpty),
             title |-> SGet(relatives[i].title, Str("")),
             first_name |-> SGet(relatives[i].first_name, Str("")),
             last_name |-> SGet(relatives[i].last_name, Str("")),
             is_death |-> FlagText(relatives[i].is_death),
             latest_submitted_date |-> today]
    IN [c EXCEPT
          !.relative_id_counter = @ + Len(relatives),
          !.relative_infos = @ \o [i \in 1..Len(relatives) |-> row(i)]]

_process_statements(c, data, submitter_id, nacc_id) ==
    LET statements == data.statements
        row(i) ==
            [nacc_id |-> nacc_id,
             statement_type_id |-> NGet(statements[i].statement_type_id, NEmpty),
             valuation_submitter |-> NGet(statements[i].valuation_submitter, NEmpty),
             submitter_id |-> submitter_id,
             valuation_spouse |-> NGet(statements[i].valuation_spouse, NEmpty),
             valuation_child |-> NGet(statements[i].valuation_child, NEmpty),
             latest_submitted_date |-> today]
    IN [c EXCEPT !.statements = @ \o [i \in 1..Len(statements) |-> row(i)]]

_process_statement_details(c, data, submitter_id, nacc_id) ==
    LET details == data.statement_details
        row(i) ==
            [nacc_id |-> nacc_id, submitter_id |-> submitter_id,
             statement_detail_type_id |-> NGet(details[i].statement_detail_type_id, NEmpty),
             index |-> NGet(details[i].index, Num(1)),
             note |-> SGet(details[i].note, Str("")),
             latest_submitted_date |-> today]
    IN [c EXCEPT !.statement_details = @ \o [i \in 1..Len(details) |-> row(i)]]

-----------------------------------------------------------------------------
(* Asset dispatch (_process_assets) and the extractor profiles *)

LandCodes == {1, 2, 3, 4}

BuildingCodes == {10, 11, 13, 37}

VehicleCodes == {18, 19, 20}

\* `asset_type_id in [...]`: None and missing codes are in no list.
InCodes(t, codes) == IsInt(t) /\ t[2] \in codes

\* Mutant: the "other" test forgets code 37 of the building list.
DispatchGroups_Forgets37(asset_type_id) ==
    (IF InCodes(asset_type_id, LandCodes) THEN {"land"} ELSE {})
    \cup (IF InCodes(asset_type_id, BuildingCodes) THEN {"building"} ELSE {})
    \cup (IF InCodes(asset_type_id, VehicleCodes) THEN {"vehicle"} ELSE {})
    \cup (IF ~InCodes(asset_type_id, LandCodes \cup {10, 11, 13} \cup VehicleCodes)
          THEN {"other"} ELSE {})

\* The sub-tables an asset type code is dispatched to, one test per `if`.
DispatchGroups(asset_type_id) ==
    (IF InCodes(asset_type_id, LandCodes) THEN {"land"} ELSE {})
    \cup (IF InCodes(asset_type_id, BuildingCodes) THEN {"building"} ELSE {})
    \cup (IF InCodes(asset_type_id, VehicleCodes) THEN {"vehicle"} ELSE {})
    \cup (IF ~InCodes(asset_type_id, LandCodes \cup BuildingCodes \cup VehicleCodes)
          THEN {"other"} ELSE {})

\* Outcome of the land-number patterns on the asset names of the model.
LandNumberIn(name) == IF name \in {"deed 7", "deed 7 2 rai Bangkok"} THEN "7" ELSE ""

land_type_map(t) ==
    IF InCodes(t, LandCodes)
    THEN CASE t[2] = 1 -> "chanote" [] t[2] = 2 -> "ns3k" [] t[2] = 3 -> "ns3" [] t[2] = 4 -> "spk"
    ELSE ""

building_type_map(t) ==
    IF InCodes(t, BuildingCodes)
    THEN CASE t[2] = 10 -> "house" [] t[2] = 11 -> "shophouse" [] t[2] = 13 -> "condo"
           [] t[2] = 37 -> "townhouse"
    ELSE ""

vehicle_type_map(t) ==
    IF InCodes(t, VehicleCodes)
    THEN CASE t[2] = 18 -> "car" [] t[2] = 19 -> "motorcycle" [] t[2] = 20 -> "boat"
    ELSE ""

\* Outcome of the other patterns (re.search, the brand lexicon) on the
\* asset names of the model: the value stored in the field, "" when no
\* pattern of the field matches.  An area is stored as a float.
Extracted(name, field) ==
    CASE name = "deed 7 2 rai Bangkok" /\ field = "area_rai" -> <<"float", 2>>
      [] name = "deed 7 2 rai Bangkok" /\ field = "province" -> Str("Bangkok")
      [] name = "condo unit 12 province Phuket" /\ field = "room_number" -> Str("12")
      [] name = "condo unit 12 province Phuket" /\ field = "province" -> Str("Phuket")
      [] name = "condo unit 12 province Phuket" /\ field = "registration" -> Str("t 12")
      [] name = "car Honda Wave plate 1234" /\ field = "brand" -> Str("Honda")
      [] name = "car Honda Wave plate 1234" /\ field = "model" -> Str("Wave")
      [] name = "car Honda Wave plate 1234" /\ field = "registration" -> Str("1234")
      [] OTHER -> Str("")

_parse_land_info(asset_name, asset_type_id) ==
    IF ~STruthy(asset_name)
    THEN [land_type |-> Str(""), land_number |-> Str(""), area_rai |-> Str(""),
          area_ngan |-> Str(""), area_sqwa |-> Str(""), province |-> Str("")]
    ELSE [land_type |-> Str(land_type_map(asset_type_id)),
          land_number |-> Str(LandNumberIn(asset_name[2])),
          area_rai |-> Extracted(asset_name[2], "area_rai"),
          area_ngan |-> Extracted(asset_name[2], "area_ngan"),
          area_sqwa |-> Extracted(asset_name[2], "area_sqwa"),
          province |-> Extracted(asset_name[2], "province")]

_parse_building_info(asset_name, asset_type_id) ==
    IF ~STruthy(asset_name)
    THEN [building_type |-> Str(""), building_name |-> Str(""), room_number |-> Str(""),
          province |-> Str("")]
    ELSE [building_type |-> Str(building_type_map(asset_type_id)),
          building_name |-> asset_name,
          room_number |-> Extracted(asset_name[2], "room_number"),
          province |-> Extracted(asset_name[2], "province")]

\* A vehicle profile whose fields start as None instead of "".
_parse_vehicle_info_NoneDefaults(asset_name, asset_type_id) ==
    LET found(field) == IF Extracted(asset_name[2], field) = Str("") THEN SNull
                        ELSE Extracted(asset_name[2], field)
    IN IF ~STruthy(asset_name)
       THEN [vehicle_type |-> SNull, brand |-> SNull, model |-> SNull,
             registration |-> SNull, province |-> SNull]
       ELSE [vehicle_type |-> Str(vehicle_type_map(asset_type_id)),
             brand |-> found("brand"), model |-> found("model"),
             registration |-> found("registration"), province |-> found("province")]

_parse_vehicle_info(asset_name, asset_type_id) ==
    IF ~STruthy(asset_name)
    THEN [vehicle_type |-> Str(""), brand |-> Str(""), model |-> Str(""),
          registration |-> Str(""), province |-> Str("")]
    ELSE [vehicle_type |-> Str(vehicle_type_map(asset_type_id)),
          brand |-> Extracted(asset_name[2], "brand"),
          model |-> Extracted(asset_name[2], "model"),
          registration |-> Extracted(asset_name[2], "registration"),
          province |-> Extracted(asset_name[2], "province")]

\* The mutant that uses the nested sub-object whenever it is non-empty.
SubInfo_WheneverPresent(nested, key, parsed) ==
    IF nested = <<>> THEN parsed ELSE nested[1]

\* The nested sub-object is used only when it is non-empty and has its key field.
SubInfo(nested, key, parsed) ==
    IF nested = <<>> \/ ~STruthy(nested[1][key]) THEN parsed ELSE nested[1]

\* One iteration of the loop over data["assets"].
ProcessAsset(c, asset, submitter_id, nacc_id) ==
    LET asset_id == c.asset_id_counter
        asset_type_id == NGet(asset.asset_type_id, Num(39))
        asset_name == SGet(asset.asset_name, Str(""))
        groups == DispatchGroups(asset_type_id)
        ids == [asset_id |-> asset_id, nacc_id |-> nacc_id,
                latest_submitted_date |-> today]
        land_info == SubInfo(asset.land_info, "land_number",
                             _parse_land_info(asset_name, asset_type_id))
        building_info == SubInfo(asset.building_info, "building_type",
                                 _parse_building_info(asset_name, asset_type_id))
        vehicle_info == SubInfo(asset.vehicle_info, "brand",
                                _parse_vehicle_info(asset_name, asset_type_id))
    IN [c EXCEPT
          !.asset_id_counter = @ + 1,
          !.assets = Append(@,
              [asset_id |-> asset_id, submitter_id |-> submitter_id, nacc_id |-> nacc_id,
               index |-> NGet(asset.index, Num(1)),
               asset_type_id |-> asset_type_id,
               asset_name |-> asset_name,
               valuation |-> NGet(asset.valuation, NEmpty),
               owner_by_submitter |-> FlagText(asset.owner_by_submitter),
               owner_by_spouse |-> FlagText(asset.owner_by_spouse),
               owner_by_child |-> FlagText(asset.owner_by_child),
               latest_submitted_date |-> today]),
          !.asset_land_infos =
              IF "land" \in groups
              THEN Append(@, ids @@ [land_type |-> SGet(land_info.land_type, Str("")),
                                     land_number |-> SGet(land_info.land_number, Str(""))])
              ELSE @,
          !.asset_building_infos =
              IF "building" \in groups
              THEN Append(@, ids @@
                       [building_type |-> SGet(building_info.building_type, Str("")),
                        building_name |-> SGet(building_info.building_name, Str(""))])
              ELSE @,
          !.asset_vehicle_infos =
              IF "vehicle" \in groups
              THEN Append(@, ids @@ [vehicle_type |-> SGet(vehicle_info.vehicle_type, Str("")),
                                     brand |-> SGet(vehicle_info.brand, Str(""))])
              ELSE @,
          !.asset_other_infos =
              IF "other" \in groups
              THEN Append(@, ids @@ [description |-> asset_name])
              ELSE @]

RECURSIVE ProcessAssetList(_, _, _, _)
ProcessAssetList(c, assets, submitter_id, nacc_id) ==
    IF assets = <<>> THEN c
    ELSE ProcessAssetList(ProcessAsset(c, Head(assets), submitter_id, nacc_id),
                          Tail(assets), submitter_id, nacc_id)

_process_assets(c, data, submitter_id, nacc_id) ==
    ProcessAssetList(c, data.assets, submitter_id, nacc_id)

-----------------------------------------------------------------------------
(* Summary generation (_generate_summary) *)

\* The type groups of the summary: `in range(lo, hi)` and `t and t >= 22`.
InRange(t, lo, hi) == IsInt(t) /\ lo <= t[2] /\ t[2] < hi

SummaryLand(a) == InRange(a.asset_type_id, 1, 10)

SummaryBuilding(a) == InRange(a.asset_type_id, 10, 18)

SummaryVehicle(a) == InRange(a.asset_type_id, 18, 22)

SummaryOther(a) == NTruthy(a.asset_type_id) /\ a.asset_type_id[2] >= 22

\* `val and val.strip()`
NonBlank(val) == val \notin {"", " ", "  "}

\* get_value(val, fallback="NONE")
get_value(val) == IF NonBlank(val) THEN val ELSE "NONE"

\* `get_value(a) or get_value(b)`: Python's `or` yields its left operand
\* whenever that operand is a non-empty string.
get_value_or(primary, secondary) ==
    IF get_value(primary) # "" THEN get_value(primary) ELSE get_value(secondary)

_generate_summary(c, data, submitter_id, nacc_id, doc_id) ==
    LET spouse == data.spouse_info
        statements == data.statements
        statement_details == data.statement_details
        assets == data.assets
        relatives == data.relatives
        EveryRow(x) == TRUE
        Valuation(a) == OrZero(a.valuation)
        VSubmitter(x) == OrZero(x.valuation_submitter)
        VSpouse(x) == OrZero(x.valuation_spouse)
        VChild(x) == OrZero(x.valuation_child)
        OwnedBySubmitter(a) == a.owner_by_submitter
        OwnedBySpouse(a) == a.owner_by_spouse
        OwnedByChild(a) == a.owner_by_child
        IsDead(r) == r.is_death
        HasNote(d) == STruthy(d.note)
        nacc_key == StrOf(nacc_id)
        detail_submitter_id == RegistryGet(c.input_nacc_detail, nacc_key, "submitter_id")
        input_submitter_id ==
            IF detail_submitter_id # <<>> THEN detail_submitter_id ELSE StrOf(submitter_id)
        nd(column) == RegistryGet(c.input_nacc_detail, nacc_key, column)
        si(column) == RegistryGet(c.input_submitter_info, input_submitter_id, column)
    IN [c EXCEPT !.summaries = Append(@,
          [id |-> nacc_id,
           doc_id |-> doc_id,
           nd_title |-> get_value_or(nd("title"), si("title")),
           nd_first_name |-> get_value_or(nd("first_name"), si("first_name")),
           nd_last_name |-> get_value_or(nd("last_name"), si("last_name")),
           submitter_id |-> input_submitter_id,
           submitter_title |-> get_value(si("title")),
           submitter_first_name |-> get_value(si("first_name")),
           submitter_last_name |-> get_value(si("last_name")),
           spouse_id |-> IF spouse # <<>> THEN Num(c.spouse_id_counter - 1) ELSE NNone,
           spouse_title |-> IF spouse # <<>> THEN SGet(spouse[1].title, Str("NONE"))
                            ELSE Str("NONE"),
           statement_valuation_submitter_total |->
               OrNONE(SumOver(statements, VSubmitter, EveryRow)),
           statement_valuation_spouse_total |-> OrNONE(SumOver(statements, VSpouse, EveryRow)),
           statement_valuation_child_total |-> OrNONE(SumOver(statements, VChild, EveryRow)),
           statement_detail_count |-> OrNONE(Len(statement_details)),
           has_statement_detail_note |->
               IF CountOver(statement_details, HasNote) > 0 THEN 1 ELSE 0,
           asset_count |-> OrNONE(Len(assets)),
           asset_land_count |-> OrNONE(CountOver(assets, SummaryLand)),
           asset_building_count |-> OrNONE(CountOver(assets, SummaryBuilding)),
           asset_vehicle_count |-> OrNONE(CountOver(assets, SummaryVehicle)),
           asset_other_count |-> OrNONE(CountOver(assets, SummaryOther)),
           asset_total_valuation_amount |-> OrNONE(SumOver(assets, Valuation, EveryRow)),
           asset_land_valuation_amount |-> OrNONE(SumOver(assets, Valuation, SummaryLand)),
           asset_building_valuation_amount |->
               OrNONE(SumOver(assets, Valuation, SummaryBuilding)),
           asset_vehicle_valuation_amount |->
               OrNONE(SumOver(assets, Valuation, SummaryVehicle)),
           asset_other_asset_valuation_amount |->
               OrNONE(SumOver(assets, Valuation, SummaryOther)),
           asset_valuation_submitter_amount |->
               OrNONE(SumOver(assets, Valuation, OwnedBySubmitter)),
           asset_valuation_spouse_amount |->
               OrNONE(SumOver(assets, Valuation, OwnedBySpouse)),
           asset_valuation_child_amount |->
               OrNONE(SumOver(assets, Valuation, OwnedByChild)),
           relative_count |-> Num(Len(relatives)),
           relative_has_death_flag |->
               Num(IF CountOver(relatives, IsDead) > 0 THEN 1 ELSE 0)])]

\* `for x in data.get(key, [])` raises TypeError when the value is null.
RaisesOn(parsed_data, key) == key \in parsed_data.null_lists

\* process_document raises on this document before it returns.
Raises(parsed_data) ==
    \E key \in {"relatives", "statements", "statement_details", "assets"} :
        RaisesOn(parsed_data, key)

\* The seven steps of process_document once the ids are settled; a step
\* that raises ends the call and leaves what the steps before it appended.
NormalizeDocument(c, parsed_data, submitter_id, nacc_id, doc_id) ==
    LET c1 == _process_submitter(c, parsed_data, submitter_id, nacc_id)
        c2 == _process_spouse(c1, parsed_data, submitter_id, nacc_id)
        c3 == _process_relatives(c2, parsed_data, submitter_id, nacc_id)
        c4 == _process_statements(c3, parsed_data, submitter_id, nacc_id)
        c5 == _process_statement_details(c4, parsed_data, submitter_id, nacc_id)
        c6 == _process_assets(c5, parsed_data, submitter_id, nacc_id)
    IN IF RaisesOn(parsed_data, "relatives") THEN c2
       ELSE IF RaisesOn(parsed_data, "statements") THEN c3
       ELSE IF RaisesOn(parsed_data, "statement_details") THEN c4
       ELSE IF RaisesOn(parsed_data, "assets") THEN c5
       ELSE _generate_summary(c6, parsed_data, submitter_id, nacc_id, doc_id)

\* The mutant of the key assignment that forgets to advance the counter.
TakeSubmitterId_NoAdvance(c, submitter_id_arg) == c

\* `if submitter_id is None`: take the next surrogate key.
TakeSubmitterId(c, submitter_id_arg) ==
    IF submitter_id_arg = <<>> THEN [c EXCEPT !.submitter_id_counter = @ + 1] ELSE c

SubmitterIdUsed(c, submitter_id_arg) ==
    IF submitter_id_arg = <<>> THEN c.submitter_id_counter ELSE submitter_id_arg[1]

\* Mutant: the ids embedded in the canonical document win over the overrides.
process_document_EmbeddedIds(c, parsed_data, submitter_id_arg, override_doc_id, override_nacc_id) ==
    NormalizeDocument(TakeSubmitterId(c, submitter_id_arg), parsed_data,
                      SubmitterIdUsed(c, submitter_id_arg),
                      parsed_data.nacc_id, parsed_data.doc_id)

\* process_document(parsed_data, submitter_id, override_doc_id, override_nacc_id);
\* an omitted optional argument is the empty sequence.
process_document(c, parsed_data, submitter_id_arg, override_doc_id, override_nacc_id) ==
    LET doc_id == IF override_doc_id # <<>> THEN override_doc_id[1] ELSE parsed_data.doc_id
        nacc_id == IF override_nacc_id # <<>> THEN override_nacc_id[1]
                   ELSE parsed_data.nacc_id
    IN NormalizeDocument(TakeSubmitterId(c, submitter_id_arg), parsed_data,
                         SubmitterIdUsed(c, submitter_id_arg), nacc_id, doc_id)

-----------------------------------------------------------------------------
(* The relational store (save_to_sqlite) and the aggregation query         *)
(* (run_validation_query)                                                  *)

\* `value if value else None` of the _insert_* methods
NullIfFalsy(v) == IF NTruthy(v) THEN v ELSE NNull

\* 1 if flag == 'TRUE' else 0
FlagBit(text) == IF text = "TRUE" THEN 1 ELSE 0

\* Built-in asset_type reference table (_insert_asset_type): the main type
\* of a type code, "" when the LEFT JOIN finds no row.
asset_type_main(t) ==
    IF InCodes(t, {1, 2, 3, 4}) THEN "land"
    ELSE IF InCodes(t, {10, 11, 13, 37}) THEN "building"
    ELSE IF InCodes(t, {18, 19, 20}) THEN "vehicle"
    ELSE IF InCodes(t, {22, 24, 25, 28, 29, 30, 31, 32, 33, 39}) THEN "other"
    ELSE ""

\* SUM(...) of a group: NULL values are skipped, and the sum of no value is NULL.
SqlSum(vals) ==
    IF \A i \in 1..Len(vals) : ~IsInt(vals[i]) THEN NNull
    ELSE Num(SumSeq([i \in 1..Len(vals) |-> IF IsInt(vals[i]) THEN vals[i][2] ELSE 0]))

\* COUNT(*) of a group joined with LEFT JOIN: no group, no row, NULL.
SqlCount(rows) == IF rows = <<>> THEN NNull ELSE Num(Len(rows))

\* MAX(...) of a group of 0/1 values
SqlMax(bits) ==
    IF bits = <<>> THEN NNull
    ELSE Num(IF \E i \in 1..Len(bits) : bits[i] = 1 THEN 1 ELSE 0)

\* Rows of the asset table, as _insert_asset stores them.
asset_table(c) ==
    [i \in 1..Len(c.assets) |->
        [asset_id |-> c.assets[i].asset_id, nacc_id |-> c.assets[i].nacc_id,
         asset_type_id |-> c.assets[i].asset_type_id,
         valuation |-> NullIfFalsy(c.assets[i].valuation),
         owner_by_submitter |-> FlagBit(c.assets[i].owner_by_submitter),
         owner_by_spouse |-> FlagBit(c.assets[i].owner_by_spouse),
         owner_by_child |-> FlagBit(c.assets[i].owner_by_child)]]

\* Rows of the statement table, as _insert_statement stores them.
statement_table(c) ==
    [i \in 1..Len(c.statements) |->
        [nacc_id |-> c.statements[i].nacc_id,
         valuation_submitter |-> NullIfFalsy(c.statements[i].valuation_submitter),
         valuation_spouse |-> NullIfFalsy(c.statements[i].valuation_spouse),
         valuation_child |-> NullIfFalsy(c.statements[i].valuation_child)]]

\* Rows of the relative_info table, as _insert_relative_info stores them.
relative_table(c) ==
    [i \in 1..Len(c.relative_infos) |->
        [nacc_id |-> c.relative_infos[i].nacc_id,
         is_death |-> FlagBit(c.relative_infos[i].is_death)]]

\* One row of the final SELECT: the CTEs joined on the document key.
validation_row(c, d) ==
    LET OfDoc(r) == r.nacc_id = d.id
        st == SelectSeq(statement_table(c), OfDoc)
        a == SelectSeq(asset_table(c), OfDoc)
        al == SelectSeq(c.asset_land_infos, OfDoc)
        ab == SelectSeq(c.asset_building_infos, OfDoc)
        av == SelectSeq(c.asset_vehicle_infos, OfDoc)
        ao == SelectSeq(c.asset_other_infos, OfDoc)
        r == SelectSeq(relative_table(c), OfDoc)
        zero == Num(0)
        CaseMain(main) ==
            [i \in 1..Len(a) |->
                IF asset_type_main(a[i].asset_type_id) = main THEN a[i].valuation ELSE zero]
        CaseOwner(flag) ==
            [i \in 1..Len(a) |-> IF a[i][flag] = 1 THEN a[i].valuation ELSE zero]
    IN [nacc_id |-> d.id,
        doc_id |-> d.doc_id,
        statement_valuation_submitter_total |->
            SqlSum([i \in 1..Len(st) |-> st[i].valuation_submitter]),
        statement_valuation_spouse_total |->
            SqlSum([i \in 1..Len(st) |-> st[i].valuation_spouse]),
        statement_valuation_child_total |->
            SqlSum([i \in 1..Len(st) |-> st[i].valuation_child]),
        asset_count |-> SqlCount(a),
        asset_land_count |-> SqlCount(al),
        asset_building_count |-> SqlCount(ab),
        asset_vehicle_count |-> SqlCount(av),
        asset_other_count |-> SqlSum([i \in 1..Len(ao) |-> Num(1)]),
        asset_total_valuation_amount |-> SqlSum([i \in 1..Len(a) |-> a[i].valuation]),
        asset_land_valuation_amount |-> SqlSum(CaseMain("land")),
        asset_building_valuation_amount |-> SqlSum(CaseMain("building")),
        asset_vehicle_valuation_amount |-> SqlSum(CaseMain("vehicle")),
        asset_other_asset_valuation_amount |-> SqlSum(CaseMain("other")),
        asset_valuation_submitter_amount |-> SqlSum(CaseOwner("owner_by_submitter")),
        asset_valuation_spouse_amount |-> SqlSum(CaseOwner("owner_by_spouse")),
        asset_valuation_child_amount |-> SqlSum(CaseOwner("owner_by_child")),
        relative_count |-> SqlCount(r),
        relative_has_death_flag |-> SqlMax([i \in 1..Len(r) |-> r[i].is_death])]

\* nacc_detail.nacc_id is the PRIMARY KEY: _insert_nacc_detail raises
\* IntegrityError on the second summary of a document key.
NaccDetailKeyClash(c) ==
    \E i, j \in 1..Len(c.summaries) : i < j /\ c.summaries[i].id = c.summaries[j].id

RECURSIVE OrderByNaccId(_)
\* ORDER BY d.nacc_id over rows with distinct keys
OrderByNaccId(rows) ==
    IF rows = {} THEN <<>>
    ELSE LET first == CHOOSE r \in rows : \A q \in rows : r.nacc_id <= q.nacc_id
         IN <<first>> \o OrderByNaccId(rows \ {first})

run_validation_query(c) ==
    IF NaccDetailKeyClash(c) THEN [status |-> "integrity_error", rows |-> <<>>]
    ELSE [status |-> "ok",
          rows |-> OrderByNaccId({validation_row(c, c.summaries[i]) :
                                     i \in 1..Len(c.summaries)})]

-----------------------------------------------------------------------------
(* The normalizer driven by direct process_document calls, then the        *)
(* relational store and its aggregation query                              *)

AccumulatorNames ==
    {"statements", "statement_details", "assets", "asset_land_infos",
     "asset_building_infos", "asset_vehicle_infos", "asset_other_infos",
     "submitter_infos", "submitter_old_names", "submitter_positions", "spouse_infos",
     "spouse_old_names", "spouse_positions", "relative_infos", "summaries"}

CounterNames ==
    {"asset_id_counter", "relative_id_counter", "submitter_id_counter", "spouse_id_counter"}

\* Sizes of the accumulators and values of the counters of a converter.
Marks(c) ==
    [name \in AccumulatorNames \cup CounterNames |->
        IF name \in CounterNames THEN c[name] ELSE Len(c[name])]

\* What a process_document call was given and where the converter stood.
CallRecord(c, parsed_data, submitter_id_arg, override_doc_id, override_nacc_id) ==
    [parsed_data |-> parsed_data,
     submitter_id_arg |-> submitter_id_arg,
     override_doc_id |-> override_doc_id,
     override_nacc_id |-> override_nacc_id,
     before |-> Marks(c)]

ParserIdle ==
    /\ page_results = <<>>
    /\ merged = <<>>
    /\ parse_pc = "idle"
    /\ in_flight = {}
    /\ max_workers = 1

\* The wall clock stands at the first day and no second converter exists.
ClockIdle == today = 1 /\ replica = <<>>

\* The driver of app.py is not running.
DriverIdle ==
    /\ doc_status = <<>>
    /\ driver_pc = "idle"
    /\ writers = {}
    /\ parallel_docs = 1
    /\ registry = <<>>

\* No OCR call is in progress.
OcrIdle == ocr = [pc |-> "idle"]

\* No extractor profile has been applied.
ProfileIdle == profile = <<>>

AuxIdle == ClockIdle /\ DriverIdle /\ OcrIdle /\ ProfileIdle

InitConv ==
    /\ converter = ConverterInit
    /\ sql = [status |-> "none", rows |-> <<>>]
    /\ conv_pc = "open"
    /\ calls = <<>>
    /\ json_dir = [name \in JsonNames |-> <<>>]
    /\ pfd = [pc |-> "none", i |-> 0, processed_count |-> 0, missing_json |-> <<>>]
    /\ ParserIdle
    /\ AuxIdle

\* converter.process_document(parsed_data)
ProcessDocumentCall ==
    /\ conv_pc = "open"
    /\ Len(calls) < MaxCalls
    /\ \E parsed_data \in DocChoices :
          /\ converter' = process_document(converter, parsed_data, <<>>, <<>>, <<>>)
          /\ calls' = Append(calls, CallRecord(converter, parsed_data, <<>>, <<>>, <<>>))
    /\ UNCHANGED <<sql, conv_pc, json_dir, pfd, parse_vars, aux_vars>>

\* converter.process_document(parsed_data, submitter_id)
ProcessDocumentWithId ==
    /\ conv_pc = "open"
    /\ Len(calls) < MaxCalls
    /\ \E parsed_data \in SuppliedDocChoices, submitter_id \in SuppliedSubmitterIds :
          /\ converter' = process_document(converter, parsed_data, <<submitter_id>>,
                                            <<>>, <<>>)
          /\ calls' = Append(calls, CallRecord(converter, parsed_data, <<submitter_id>>,
                                               <<>>, <<>>))
    /\ UNCHANGED <<sql, conv_pc, json_dir, pfd, parse_vars, aux_vars>>

\* converter.process_document(parsed_data) raises TypeError part-way; the
\* caller catches it and goes on with the same converter.
ProcessDocumentRaises ==
    /\ conv_pc = "open"
    /\ Len(calls) < MaxCalls
    /\ \E parsed_data \in MalformedDocChoices :
          /\ Raises(parsed_data)
          /\ converter' = process_document(converter, parsed_data, <<>>, <<>>, <<>>)
          /\ calls' = Append(calls, CallRecord(converter, parsed_data, <<>>, <<>>, <<>>))
    /\ UNCHANGED <<sql, conv_pc, json_dir, pfd, parse_vars, aux_vars>>

\* converter.save_to_sqlite(import_external=False); run_validation_query()
RunValidation ==
    /\ conv_pc = "open"
    /\ sql' = run_validation_query(converter)
    /\ conv_pc' = "validated"
    /\ UNCHANGED <<converter, calls, json_dir, pfd, parse_vars, aux_vars>>

NextConv ==
    ProcessDocumentCall \/ ProcessDocumentWithId \/ ProcessDocumentRaises \/ RunValidation

SpecConv == InitConv /\ [][NextConv]_vars

-----------------------------------------------------------------------------
(* Two converters built alike: the documents given to the first are given  *)
(* again, in the same order, to the second, on the same day or later.      *)
(* replica[1] is the second converter as constructed, replica[k + 1] is it *)
(* after its k-th call.                                                    *)

InitRerun ==
    /\ converter = ConverterInit
    /\ sql = [status |-> "none", rows |-> <<>>]
    /\ conv_pc = "open"
    /\ calls = <<>>
    /\ json_dir = [name \in JsonNames |-> <<>>]
    /\ pfd = [pc |-> "none", i |-> 0, processed_count |-> 0, missing_json |-> <<>>]
    /\ ParserIdle
    /\ today = 1
    /\ replica = <<ConverterInit>>
    /\ DriverIdle /\ OcrIdle /\ ProfileIdle

\* Midnight: datetime.now().strftime("%Y-%m-%d") answers the next day.
DayPasses ==
    /\ today < MaxDays
    /\ today' = today + 1
    /\ UNCHANGED <<conv_vars, parse_vars, replica, driver_vars, ocr, profile>>

\* The second converter is given the next document the first one was given.
ReplicaRun ==
    /\ Len(replica) <= Len(calls)
    /\ replica' = Append(replica,
                         process_document(replica[Len(replica)],
                                          calls[Len(replica)].parsed_data,
                                          <<>>, <<>>, <<>>))
    /\ UNCHANGED <<conv_vars, parse_vars, today, driver_vars, ocr, profile>>

NextRerun == ProcessDocumentCall \/ DayPasses \/ ReplicaRun

SpecRerun == InitRerun /\ [][NextRerun]_vars

-----------------------------------------------------------------------------
(* The normalizer driven by the document registry: load_input_data, then   *)
(* process_from_doc_info                                                   *)

InitRegistry ==
    /\ converter = ConverterInit
    /\ sql = [status |-> "none", rows |-> <<>>]
    /\ conv_pc = "registry"
    /\ calls = <<>>
    /\ json_dir \in [JsonNames -> {<<>>} \cup {<<d>> : d \in RegistryDocChoices}]
    /\ pfd = [pc |-> "loading", i |-> 0, processed_count |-> 0, missing_json |-> <<>>]
    /\ ParserIdle
    /\ AuxIdle

\* load_input_data: one row of the doc_info CSV
LoadDocInfoRow ==
    /\ pfd.pc = "loading"
    /\ Len(converter.input_doc_order) < MaxRegistryRows
    /\ \E row \in DocInfoRowChoices :
          converter' =
              [converter EXCEPT
                 !.input_doc_info =
                     DictPut(@, row.doc_id,
                             [nacc_id |-> row.nacc_id,
                              doc_location_url |-> row.doc_location_url]),
                 !.input_doc_order = Append(@, row.doc_id)]
    /\ UNCHANGED <<sql, conv_pc, calls, json_dir, pfd, parse_vars, aux_vars>>

\* process_from_doc_info up to its loop: returns 0 when no registry is loaded
StartProcessFromDocInfo ==
    /\ pfd.pc = "loading"
    /\ pfd' = IF converter.input_doc_info = {}
              THEN [pfd EXCEPT !.pc = "done"]
              ELSE [pfd EXCEPT !.pc = "loop", !.i = 1]
    /\ UNCHANGED <<converter, sql, conv_pc, calls, json_dir, parse_vars, aux_vars>>

\* The registry row the loop is at.
CurrentDocId == converter.input_doc_order[pfd.i]

CurrentDocInfo == DictGet(converter.input_doc_info, CurrentDocId)

\* json_found: the file named after doc_location_url exists in json_dir
JsonFound(doc_info) ==
    /\ doc_info.doc_location_url # ""
    /\ json_dir[JsonFilenameOf(doc_info.doc_location_url)] # <<>>

Advance(p) == [p EXCEPT !.i = @ + 1,
                        !.pc = IF pfd.i = Len(converter.input_doc_order)
                               THEN "done" ELSE "loop"]

\* One iteration whose JSON file is found: process_document with the
\* registry's doc_id and nacc_id as overrides.
ProcessFromDocInfoStep ==
    /\ pfd.pc = "loop"
    /\ CurrentDocInfo.nacc_id # <<>>
    /\ JsonFound(CurrentDocInfo)
    /\ LET doc_id == CurrentDocId
           nacc_id == IntOf(CurrentDocInfo.nacc_id)
           parsed_data == json_dir[JsonFilenameOf(CurrentDocInfo.doc_location_url)][1]
       IN /\ ~Raises(parsed_data)
          /\ converter' = process_document(converter, parsed_data, <<>>,
                                            <<doc_id>>, <<nacc_id>>)
          /\ calls' = Append(calls, CallRecord(converter, parsed_data, <<>>,
                                               <<doc_id>>, <<nacc_id>>))
    /\ pfd' = Advance([pfd EXCEPT !.processed_count = @ + 1])
    /\ UNCHANGED <<sql, conv_pc, json_dir, parse_vars, aux_vars>>

\* One iteration whose JSON file is not found.
ProcessFromDocInfoMissing ==
    /\ pfd.pc = "loop"
    /\ CurrentDocInfo.nacc_id # <<>>
    /\ ~JsonFound(CurrentDocInfo)
    /\ pfd' = Advance([pfd EXCEPT !.missing_json = Append(@, CurrentDocId)])
    /\ UNCHANGED <<converter, sql, conv_pc, calls, json_dir, parse_vars, aux_vars>>

\* int('') raises ValueError outside the loop's try block.
ProcessFromDocInfoRaise ==
    /\ pfd.pc = "loop"
    /\ CurrentDocInfo.nacc_id = <<>>
    /\ pfd' = [pfd EXCEPT !.pc = "raised"]
    /\ UNCHANGED <<converter, sql, conv_pc, calls, json_dir, parse_vars, aux_vars>>

NextRegistry ==
    \/ LoadDocInfoRow
    \/ StartProcessFromDocInfo
    \/ ProcessFromDocInfoStep
    \/ ProcessFromDocInfoMissing
    \/ ProcessFromDocInfoRaise

SpecRegistry == InitRegistry /\ [][NextRegistry]_vars

-----------------------------------------------------------------------------
(* load_input_data, process_from_doc_info, then save_all_csv               *)

MaxExportRows == 3

\* Registry rows of the export runs: two doc_ids, two source files.
ExportRowChoices ==
    {DocInfoRow(d, <<1>>, u) : d \in {"D1", "D2"}, u \in {"a.pdf", "b.pdf"}}

InitExport ==
    /\ converter = ConverterInit
    /\ sql = [status |-> "none", rows |-> <<>>]
    /\ conv_pc = "registry"
    /\ calls = <<>>
    /\ json_dir \in [JsonNames -> {<<>>} \cup {<<d>> : d \in RegistryDocChoices}]
    /\ pfd = [pc |-> "loading", i |-> 0, processed_count |-> 0, missing_json |-> <<>>]
    /\ ParserIdle
    /\ AuxIdle

\* load_input_data: one row of the doc_info CSV
LoadExportRow ==
    /\ pfd.pc = "loading"
    /\ Len(converter.input_doc_order) < MaxExportRows
    /\ \E row \in ExportRowChoices :
          converter' =
              [converter EXCEPT
                 !.input_doc_info =
                     DictPut(@, row.doc_id,
                             [nacc_id |-> row.nacc_id,
                              doc_location_url |-> row.doc_location_url]),
                 !.input_doc_order = Append(@, row.doc_id)]
    /\ UNCHANGED <<sql, conv_pc, calls, json_dir, pfd, parse_vars, aux_vars>>

\* doc_order_map = {doc_id: idx for idx, doc_id in enumerate(input_doc_order)}
\* and doc_order_map.get(doc_id, 999999): a doc_id met again overwrites its
\* entry, so the map holds the last place of each doc_id.
doc_order_map_get(input_doc_order, doc_id) ==
    LET places == {i \in 1..Len(input_doc_order) : input_doc_order[i] = doc_id}
    IN IF places = {} THEN 999999
       ELSE (CHOOSE i \in places : \A j \in places : j <= i) - 1

\* list.sort(key=...): stable, rows of equal key keep their order.
RECURSIVE SortSummaries(_, _)
SortSummaries(rows, input_doc_order) ==
    IF rows = <<>> THEN <<>>
    ELSE LET key(row) == doc_order_map_get(input_doc_order, row.doc_id)
             front == SortSummaries(SubSeq(rows, 1, Len(rows) - 1), input_doc_order)
             last == rows[Len(rows)]
             before == SelectSeq(front, LAMBDA row : key(row) <= key(last))
             after == SelectSeq(front, LAMBDA row : key(row) > key(last))
         IN before \o <<last>> \o after

\* save_all_csv once process_from_doc_info has returned: the accumulators
\* are written as they stand, the summaries after being sorted in place.
SaveAllCsv ==
    /\ conv_pc = "registry"
    /\ pfd.pc = "done"
    /\ converter' =
          IF converter.input_doc_order # <<>>
          THEN [converter EXCEPT !.summaries = SortSummaries(@, converter.input_doc_order)]
          ELSE converter
    /\ conv_pc' = "saved"
    /\ UNCHANGED <<sql, calls, json_dir, pfd, parse_vars, aux_vars>>

NextExport ==
    \/ LoadExportRow
    \/ StartProcessFromDocInfo
    \/ ProcessFromDocInfoStep
    \/ ProcessFromDocInfoMissing
    \/ SaveAllCsv

SpecExport == InitExport /\ [][NextExport]_vars

\* The JSON directory may also hold a canonical document process_document
\* raises on.
InitRegistryFaults ==
    /\ converter = ConverterInit
    /\ sql = [status |-> "none", rows |-> <<>>]
    /\ conv_pc = "registry"
    /\ calls = <<>>
    /\ json_dir \in [JsonNames -> {<<>>} \cup {<<d>> : d \in RegistryDocChoices
                                                         \cup MalformedDocChoices}]
    /\ pfd = [pc |-> "loading", i |-> 0, processed_count |-> 0, missing_json |-> <<>>]
    /\ ParserIdle
    /\ AuxIdle

\* The mutant of the except branch that counts the document all the same.
ProcessFromDocInfoFails_Counted ==
    /\ pfd.pc = "loop"
    /\ CurrentDocInfo.nacc_id # <<>>
    /\ JsonFound(CurrentDocInfo)
    /\ LET doc_id == CurrentDocId
           nacc_id == IntOf(CurrentDocInfo.nacc_id)
           parsed_data == json_dir[JsonFilenameOf(CurrentDocInfo.doc_location_url)][1]
       IN /\ Raises(parsed_data)
          /\ converter' = process_document(converter, parsed_data, <<>>,
                                            <<doc_id>>, <<nacc_id>>)
          /\ calls' = Append(calls, CallRecord(converter, parsed_data, <<>>,
                                               <<doc_id>>, <<nacc_id>>))
    /\ pfd' = Advance([pfd EXCEPT !.processed_count = @ + 1])
    /\ UNCHANGED <<sql, conv_pc, json_dir, parse_vars, aux_vars>>

\* One iteration whose process_document raises: `except Exception as e`
\* prints the error, processed_count += 1 is not reached, the loop goes on.
ProcessFromDocInfoFails ==
    /\ pfd.pc = "loop"
    /\ CurrentDocInfo.nacc_id # <<>>
    /\ JsonFound(CurrentDocInfo)
    /\ LET doc_id == CurrentDocId
           nacc_id == IntOf(CurrentDocInfo.nacc_id)
           parsed_data == json_dir[JsonFilenameOf(CurrentDocInfo.doc_location_url)][1]
       IN /\ Raises(parsed_data)
          /\ converter' = process_document(converter, parsed_data, <<>>,
                                            <<doc_id>>, <<nacc_id>>)
          /\ calls' = Append(calls, CallRecord(converter, parsed_data, <<>>,
                                               <<doc_id>>, <<nacc_id>>))
    /\ pfd' = Advance(pfd)
    /\ UNCHANGED <<sql, conv_pc, json_dir, parse_vars, aux_vars>>

NextRegistryFaults == NextRegistry \/ ProcessFromDocInfoFails

SpecRegistryFaults == InitRegistryFaults /\ [][NextRegistryFaults]_vars

-----------------------------------------------------------------------------
(* Properties of the normalizer and of the aggregation *)

\* The number an exported aggregate stands for: the sentinel "NONE" and
\* SQL NULL both stand for "nothing", as 0 does.
AggValue(v) == IF IsInt(v) THEN v[2] ELSE 0

AggregateColumns ==
    {"statement_valuation_submitter_total", "statement_valuation_spouse_total",
     "statement_valuation_child_total", "asset_count", "asset_land_count",
     "asset_building_count", "asset_vehicle_count", "asset_other_count",
     "asset_total_valuation_amount", "asset_land_valuation_amount",
     "asset_building_valuation_amount", "asset_vehicle_valuation_amount",
     "asset_other_asset_valuation_amount", "asset_valuation_submitter_amount",
     "asset_valuation_spouse_amount", "asset_valuation_child_amount",
     "relative_count", "relative_has_death_flag"}

\* C1: once the aggregation query has run over the store filled from the
\* accumulators, every aggregate of every summary row equals the value the
\* query returns for that document key.
C1_SummaryEqualsSql ==
    (conv_pc = "validated" /\ sql.status = "ok") =>
        \A i \in 1..Len(converter.summaries) :
            \A j \in 1..Len(sql.rows) :
                sql.rows[j].nacc_id = converter.summaries[i].id =>
                    \A col \in AggregateColumns :
                        AggValue(converter.summaries[i][col]) = AggValue(sql.rows[j][col])

\* First non-empty value in source order, the sentinel when both are empty.
FirstNonEmpty(primary, secondary) ==
    IF NonBlank(primary) THEN primary
    ELSE IF NonBlank(secondary) THEN secondary
    ELSE "NONE"

\* C2: nd_title, nd_first_name and nd_last_name of every summary row are the
\* detail-registry field when non-empty, otherwise the submitter-registry
\* field when non-empty, otherwise "NONE".
C2_NdFieldsFirstNonEmpty ==
    \A i \in 1..Len(converter.summaries) :
        LET s == converter.summaries[i]
            nd(column) == RegistryGet(converter.input_nacc_detail, StrOf(s.id), column)
            si(column) == RegistryGet(converter.input_submitter_info, s.submitter_id, column)
        IN /\ s.nd_title = FirstNonEmpty(nd("title"), si("title"))
           /\ s.nd_first_name = FirstNonEmpty(nd("first_name"), si("first_name"))
           /\ s.nd_last_name = FirstNonEmpty(nd("last_name"), si("last_name"))

\* Marks of the converter when the k-th call returned.
MarksAfterCall(k) == IF k < Len(calls) THEN calls[k + 1].before ELSE Marks(converter)

\* Positions of the rows the k-th call appended to an accumulator.
RowsOfCall(name, k) == (calls[k].before[name] + 1) .. MarksAfterCall(k)[name]

\* C3: every row a registry-driven call appends, in every accumulator,
\* carries the nacc_id of the registry entry of its document, and its
\* summary row carries the registry's doc_id.
C3_RegistryIdsOverride ==
    \A k \in 1..Len(calls) :
        calls[k].override_doc_id # <<>> =>
            LET doc_id == calls[k].override_doc_id[1]
                nacc_id == IntOf(DictGet(converter.input_doc_info, doc_id).nacc_id)
            IN /\ \A name \in AccumulatorNames \ {"summaries"} :
                     \A i \in RowsOfCall(name, k) : converter[name][i].nacc_id = nacc_id
               /\ RowsOfCall("summaries", k) # {}
               /\ \A i \in RowsOfCall("summaries", k) :
                     /\ converter.summaries[i].id = nacc_id
                     /\ converter.summaries[i].doc_id = doc_id

\* A registry-driven call on a document whose embedded doc_id and nacc_id
\* both differ from the registry's has appended rows to every accumulator.
C3_Witness ==
    \E k \in 1..Len(calls) :
        /\ calls[k].override_doc_id # <<>>
        /\ calls[k].override_doc_id[1] # calls[k].parsed_data.doc_id
        /\ calls[k].override_nacc_id[1] # calls[k].parsed_data.nacc_id
        /\ \A name \in AccumulatorNames : RowsOfCall(name, k) # {}

\* Sub-rows of one asset over the four sub-tables, as (table, position) pairs.
SubRowsOf(c, asset_id) ==
    {<<"land", i>> : i \in {k \in 1..Len(c.asset_land_infos) :
                               c.asset_land_infos[k].asset_id = asset_id}}
    \cup {<<"building", i>> : i \in {k \in 1..Len(c.asset_building_infos) :
                                       c.asset_building_infos[k].asset_id = asset_id}}
    \cup {<<"vehicle", i>> : i \in {k \in 1..Len(c.asset_vehicle_infos) :
                                      c.asset_vehicle_infos[k].asset_id = asset_id}}
    \cup {<<"other", i>> : i \in {k \in 1..Len(c.asset_other_infos) :
                                    c.asset_other_infos[k].asset_id = asset_id}}

\* C4: every asset row has exactly one sub-row over the four sub-tables.
C4_ExactlyOneSubRow ==
    \A i \in 1..Len(converter.assets) :
        Cardinality(SubRowsOf(converter, converter.assets[i].asset_id)) = 1

\* An asset with a null type code and one with a missing type code (stored
\* as 39) have been dispatched, both to the "other" sub-table.
C4_Witness ==
    /\ \E i \in 1..Len(converter.assets) :
          /\ converter.assets[i].asset_type_id = NNull
          /\ \E r \in SubRowsOf(converter, converter.assets[i].asset_id) : r[1] = "other"
    /\ \E i \in 1..Len(converter.assets) :
          /\ converter.assets[i].asset_name = Str("")
          /\ converter.assets[i].asset_type_id = Num(39)
    /\ converter.asset_building_infos # <<>>

\* Asset ids handed out by the k-th call.
AssetIdsOfCall(k) ==
    LET first == calls[k].before["asset_id_counter"]
    IN first .. (first + Len(calls[k].parsed_data.assets) - 1)

GroupRowsOfCall(table, k) ==
    Cardinality({i \in 1..Len(table) : table[i].asset_id \in AssetIdsOfCall(k)})

\* C5: the four group counts of each summary row are the numbers of rows
\* its call put in the four sub-tables, and they add up to its asset_count.
C5_SummaryGroupsAreDispatchGroups ==
    \A k \in 1..Len(calls) :
      \A n \in RowsOfCall("summaries", k) :
        LET s == converter.summaries[n]
        IN /\ AggValue(s.asset_land_count) = GroupRowsOfCall(converter.asset_land_infos, k)
           /\ AggValue(s.asset_building_count)
                = GroupRowsOfCall(converter.asset_building_infos, k)
           /\ AggValue(s.asset_vehicle_count)
                = GroupRowsOfCall(converter.asset_vehicle_infos, k)
           /\ AggValue(s.asset_other_count) = GroupRowsOfCall(converter.asset_other_infos, k)
           /\ AggValue(s.asset_land_count) + AggValue(s.asset_building_count)
                + AggValue(s.asset_vehicle_count) + AggValue(s.asset_other_count)
                = AggValue(s.asset_count)

-----------------------------------------------------------------------------
(* Page fragments of the page-by-page parser.  A field of an info dict is  *)
(* a tagged pair as above; a list-valued field is <<"list", seq>>,         *)
(* <<"null", <<>>>> or <<"absent", <<>>>>.  The error key of a fragment is *)
(* SAbsent when the fragment has none; dict.get makes a missing and a null *)
(* submitter_info / spouse_info the same (<<>>), and a missing, null or    *)
(* empty list the same (<<>>).                                             *)

List(s) == <<"list", s>>

LNull == <<"null", <<>>>>

LAbsent == <<"absent", <<>>>>

\* value is None, or the key is not in the dict (dict.get returns None)
IsNone(v) == v[1] \in {"absent", "null"}

\* bool(value) of Python
Truthy(v) ==
    CASE v[1] = "str" -> v[2] # ""
      [] v[1] = "int" -> v[2] # 0
      [] v[1] = "list" -> v[2] # <<>>
      [] OTHER -> FALSE

PageInfo(title, first, age, old_names) ==
    <<[title |-> title, first_name |-> first, age |-> age, old_names |-> old_names]>>

InfoKeys == {"title", "first_name", "age", "old_names"}

ScalarInfoKeys == {"title", "first_name", "age"}

PageRelative(title, first, last, rel) ==
    [index |-> NAbsent, relationship_id |-> rel, title |-> title,
     first_name |-> first, last_name |-> last, is_death |-> FALSE]

Fragment(page_type, error, sub, sp, rels, stmts, dets, assets) ==
    [page_number |-> NAbsent, page_type |-> page_type, error |-> error,
     submitter_info |-> sub, spouse_info |-> sp, relatives |-> rels,
     statements |-> stmts, statement_details |-> dets, assets |-> assets,
     misshapen |-> {}]

\* {"page_number": n, "page_type": "error", "error": str(e)}
ErrorPage(page_number, page_type, error) ==
    [Fragment(page_type, error, <<>>, <<>>, <<>>, <<>>, <<>>, <<>>)
        EXCEPT !.page_number = Num(page_number)]

InfoChoices ==
    { PageInfo(Str("Mr"), SNull, NNull, List(<<"Old1">>)),
      PageInfo(SNull, Str("Ann"), Num(0), LNull),
      PageInfo(Str(""), SAbsent, Str("40"), List(<<>>)),
      PageInfo(Str("Ms"), Str(""), Num(40), List(<<"Old2">>)),
      PageInfo(SAbsent, Str("Bea"), NAbsent, LAbsent) }

PageRelativeLists ==
    { <<PageRelative(Str("a"), Str("Ann"), Str("Lee"), Num(1))>>,
      <<PageRelative(Str("b"), Str("Ann"), Str("Lee"), Num(1)),
        PageRelative(Str("c"), Str("Bob"), Str("Lee"), Num(4))>>,
      <<[PageRelative(Str("d"), Str("Bob"), Str("Lee"), Num(4)) EXCEPT !.index = Num(9)],
        PageRelative(Str("e"), Str("Ann"), Str("Lee"), Num(1))>>,
      <<PageRelative(Str("f"), SAbsent, Str("Lee"), NNull)>>,
      <<PageRelative(Str("g"), Str(""), Str("Lee"), NNull),
        PageRelative(Str("h"), SNull, Str("Lee"), NAbsent)>> }

PageStatementLists ==
    { <<Statement(Num(1), Num(10), NNull, NNull)>>,
      <<Statement(Num(1), Num(20), Num(5), NAbsent), Statement(Num(2), Num(7), NNull, NNull)>>,
      <<Statement(NAbsent, Num(3), Num(3), Num(3)), Statement(Num(1), Num(30), Num(6), NNull)>> }

PageDetailLists == { <<Detail(Num(1), Str("n1")), Detail(Num(1), Str("n1"))>> }

\* The second list's first asset carries the index it had on its page.
PageAssetLists ==
    { <<Asset(Num(1), Num(10), TRUE, FALSE, FALSE, Str("plot 12"))>>,
      <<[Asset(Num(18), Num(5), FALSE, TRUE, FALSE, Str("car")) EXCEPT !.index = Num(7)],
        Asset(Num(1), Num(10), TRUE, FALSE, FALSE, Str("plot 12"))>> }

\* What the LLM can answer for a page: the fragments of the page prompt,
\* one kind of content at a time, a fragment reporting an error of its own,
\* and an empty one.
FragmentChoices ==
    { Fragment(Str("submitter"), SAbsent, sub, <<>>, <<>>, <<>>, <<>>, <<>>) :
          sub \in InfoChoices }
    \cup { Fragment(Str("spouse"), SAbsent, <<>>, sp, <<>>, <<>>, <<>>, <<>>) :
          sp \in { PageInfo(Str("Mrs"), SNull, NNull, LNull),
                   PageInfo(Str(""), Str("Eve"), NNull, List(<<"Old3">>)) } }
    \cup { Fragment(Str("relatives"), SAbsent, <<>>, <<>>, rels, <<>>, <<>>, <<>>) :
          rels \in PageRelativeLists }
    \cup { Fragment(Str("summary"), SAbsent, <<>>, <<>>, <<>>, stmts, <<>>, <<>>) :
          stmts \in PageStatementLists }
    \cup { Fragment(Str("details"), SAbsent, <<>>, <<>>, <<>>, <<>>, dets, <<>>) :
          dets \in PageDetailLists }
    \cup { Fragment(Str("assets"), SAbsent, <<>>, <<>>, <<>>, <<>>, <<>>, assets) :
          assets \in PageAssetLists }
    \cup { Fragment(SAbsent, Str("unreadable"),
                    PageInfo(Str("Sir"), Str("Zed"), Num(9), List(<<"Old9">>)), <<>>,
                    <<PageRelative(Str("z"), Str("Zed"), Str("Zed"), Num(2))>>, <<>>, <<>>,
                    <<Asset(Num(39), Num(1), TRUE, FALSE, FALSE, Str("ring"))>>),
           Fragment(SAbsent, SAbsent, <<>>, <<>>, <<>>, <<>>, <<>>, <<>>) }

\* str(e) of the exception a page task died of: the text may be empty
\* (Exception(), a bare assert, TimeoutError()).
ExceptionTexts == {"", "Request timed out."}

-----------------------------------------------------------------------------
(* LLMParser: _merge_info, _dedupe_relatives, _dedupe_statements and       *)
(* merge_parsed_pages                                                      *)

\* The mutant of the loop's step that assigns a later list over the list
\* already merged.
MergeValue_ListOverwrites(existing, value) ==
    IF IsNone(value) THEN existing
    ELSE IF value[1] = "list" /\ existing[1] = "list" THEN value
    ELSE IF IsNone(existing) THEN value
    ELSE IF value[1] = "str" /\ value[2] # "" /\ ~Truthy(existing) THEN value
    ELSE existing

\* One key of the loop of _merge_info: merged[key] after new[key] = value.
MergeValue(existing, value) ==
    IF IsNone(value) THEN existing
    ELSE IF value[1] = "list" /\ existing[1] = "list"
         THEN List(existing[2] \o value[2])
    ELSE IF IsNone(existing) THEN value
    ELSE IF value[1] = "str" /\ value[2] # "" /\ ~Truthy(existing) THEN value
    ELSE existing

\* The mutant of _merge_info that lets a later non-null value win.
_merge_info_NewWins(existing, new) ==
    IF new = <<>> THEN existing
    ELSE IF existing = <<>> THEN new
    ELSE <<[key \in InfoKeys |->
              IF IsNone(new[1][key]) THEN existing[1][key]
              ELSE IF new[1][key][1] = "list" /\ existing[1][key][1] = "list"
                   THEN List(existing[1][key][2] \o new[1][key][2])
              ELSE new[1][key]]>>

_merge_info(existing, new) ==
    IF new = <<>> THEN existing
    ELSE IF existing = <<>> THEN new
    ELSE <<[key \in InfoKeys |-> MergeValue(existing[1][key], new[1][key])]>>

\* rel.get("first_name", ""), rel.get("last_name", ""), rel.get("relationship_id")
RelativeKey(rel) ==
    << SGet(rel.first_name, Str("")), SGet(rel.last_name, Str("")),
       IF rel.relationship_id = NAbsent THEN NNull ELSE rel.relationship_id >>

RECURSIVE DedupeRelativesFrom(_, _, _)
DedupeRelativesFrom(relatives, seen, unique) ==
    IF relatives = <<>> THEN unique
    ELSE LET rel == Head(relatives)
             key == RelativeKey(rel)
         IN IF key \notin seen
            THEN DedupeRelativesFrom(Tail(relatives), seen \cup {key}, Append(unique, rel))
            ELSE DedupeRelativesFrom(Tail(relatives), seen, unique)

\* The mutant of _dedupe_relatives that keeps the last record of a key.
RECURSIVE _dedupe_relatives_KeepsLast(_)
_dedupe_relatives_KeepsLast(relatives) ==
    IF relatives = <<>> THEN <<>>
    ELSE LET rest == Tail(relatives)
         IN IF \E i \in 1..Len(rest) : RelativeKey(rest[i]) = RelativeKey(Head(relatives))
            THEN _dedupe_relatives_KeepsLast(rest)
            ELSE <<Head(relatives)>> \o _dedupe_relatives_KeepsLast(rest)

_dedupe_relatives(relatives) == DedupeRelativesFrom(relatives, {}, <<>>)

\* sum(1 for v in stmt.values() if v is not None)
NonNullCount(stmt) ==
    Cardinality({key \in DOMAIN stmt : ~IsNone(stmt[key])})

\* stmt.get("statement_type_id")
StatementTypeOf(stmt) ==
    IF stmt.statement_type_id = NAbsent THEN NNull ELSE stmt.statement_type_id

\* by_type is a dict: a replaced statement keeps the place of the first
\* statement of its type.
RECURSIVE DedupeStatementsFrom(_, _)
DedupeStatementsFrom(statements, by_type) ==
    IF statements = <<>> THEN by_type
    ELSE LET stmt == Head(statements)
             type_id == StatementTypeOf(stmt)
             at == {i \in 1..Len(by_type) : StatementTypeOf(by_type[i]) = type_id}
         IN IF at = {}
            THEN DedupeStatementsFrom(Tail(statements), Append(by_type, stmt))
            ELSE LET i == CHOOSE n \in at : TRUE
                 IN IF NonNullCount(stmt) > NonNullCount(by_type[i])
                    THEN DedupeStatementsFrom(Tail(statements), [by_type EXCEPT ![i] = stmt])
                    ELSE DedupeStatementsFrom(Tail(statements), by_type)

\* The mutant of _dedupe_statements whose test is >= : a tie goes to the
\* later statement.
RECURSIVE DedupeStatementsFrom_TieToLater(_, _)
DedupeStatementsFrom_TieToLater(statements, by_type) ==
    IF statements = <<>> THEN by_type
    ELSE LET stmt == Head(statements)
             type_id == StatementTypeOf(stmt)
             at == {i \in 1..Len(by_type) : StatementTypeOf(by_type[i]) = type_id}
         IN IF at = {}
            THEN DedupeStatementsFrom_TieToLater(Tail(statements), Append(by_type, stmt))
            ELSE LET i == CHOOSE n \in at : TRUE
                 IN IF NonNullCount(stmt) >= NonNullCount(by_type[i])
                    THEN DedupeStatementsFrom_TieToLater(Tail(statements),
                                                         [by_type EXCEPT ![i] = stmt])
                    ELSE DedupeStatementsFrom_TieToLater(Tail(statements), by_type)

_dedupe_statements_TieToLater(statements) == DedupeStatementsFrom_TieToLater(statements, <<>>)

_dedupe_statements(statements) == DedupeStatementsFrom(statements, <<>>)

\* The mutant that keeps the index a record carried in its fragment.
ReIndex_KeepsCarried(rows) ==
    [i \in 1..Len(rows) |->
        IF rows[i].index = NAbsent THEN [rows[i] EXCEPT !.index = Num(i)] ELSE rows[i]]

\* for i, row in enumerate(rows, 1): row["index"] = i
ReIndex(rows) == [i \in 1..Len(rows) |-> [rows[i] EXCEPT !.index = Num(i)]]

RECURSIVE GCD(_, _)
GCD(a, b) == IF b = 0 THEN a ELSE GCD(b, a % b)

\* successful_pages / total_pages: the quotient, in lowest terms
Quotient(a, b) == [num |-> a \div GCD(a, b), den |-> b \div GCD(a, b)]

\* The test of the merge loop: `if page_data.get("error"): continue`
SkippedByMerge(page_data) == Truthy(page_data.error)

\* The loop of merge_parsed_pages over page_results[from..], on the merged
\* document m with successful_pages in m.successful_pages.
RECURSIVE MergeLoop(_, _)
MergeLoop(results, m) ==
    IF results = <<>> THEN m
    ELSE LET page_data == Head(results)
         IN IF SkippedByMerge(page_data) THEN MergeLoop(Tail(results), m)
            ELSE MergeLoop(Tail(results),
                   [m EXCEPT
                      !.successful_pages = @ + 1,
                      !.submitter_info = _merge_info(@, page_data.submitter_info),
                      !.spouse_info = _merge_info(@, page_data.spouse_info),
                      !.relatives = @ \o page_data.relatives,
                      !.statements = @ \o page_data.statements,
                      !.statement_details = @ \o page_data.statement_details,
                      !.assets = @ \o page_data.assets])

merge_parsed_pages(results, doc_id, nacc_id) ==
    LET total_pages == Len(results)
        m == MergeLoop(results,
                [successful_pages |-> 0, submitter_info |-> <<>>, spouse_info |-> <<>>,
                 relatives |-> <<>>, statements |-> <<>>, statement_details |-> <<>>,
                 assets |-> <<>>])
    IN [doc_id |-> doc_id,
        nacc_id |-> nacc_id,
        extraction_status |->
            IF m.successful_pages = 0 THEN "failed"
            ELSE IF m.successful_pages < total_pages THEN "partial"
            ELSE "success",
        confidence_score |->
            IF total_pages > 0 THEN Quotient(m.successful_pages, total_pages)
            ELSE Quotient(0, 1),
        submitter_info |-> m.submitter_info,
        spouse_info |-> m.spouse_info,
        relatives |-> ReIndex(_dedupe_relatives(m.relatives)),
        statements |-> _dedupe_statements(m.statements),
        statement_details |-> m.statement_details,
        assets |-> ReIndex(m.assets)]

-----------------------------------------------------------------------------
(* parse_document_page_by_page: one task per page, finishing in any order, *)
(* each filling its own slot of page_results (<<>> is the None of an       *)
(* unfilled slot); the merge runs once the executor has joined them all.   *)

InitMerge ==
    /\ converter = ConverterInit
    /\ sql = [status |-> "none", rows |-> <<>>]
    /\ conv_pc = "none"
    /\ calls = <<>>
    /\ json_dir = [name \in JsonNames |-> <<>>]
    /\ pfd = [pc |-> "none", i |-> 0, processed_count |-> 0, missing_json |-> <<>>]
    /\ \E total_pages \in 0..MaxPages : page_results = [i \in 1..total_pages |-> <<>>]
    /\ merged = <<>>
    /\ parse_pc = "parsing"
    \* the pool is at least as wide as the document is long: every submitted
    \* page task is taken by a worker at once
    /\ in_flight = 1..Len(page_results)
    /\ max_workers = MaxPages
    /\ AuxIdle

\* A worker thread of the ThreadPoolExecutor takes a submitted page task.
StartPageTask ==
    /\ parse_pc = "parsing"
    /\ Cardinality(in_flight) < max_workers
    /\ \E page_idx \in 1..Len(page_results) :
          /\ page_results[page_idx] = <<>>
          /\ page_idx \notin in_flight
          /\ in_flight' = in_flight \cup {page_idx}
    /\ UNCHANGED <<aux_vars, conv_vars, max_workers, page_results, merged, parse_pc>>

\* The mutant that collects the results in the order the tasks complete
\* (page_results.append(result)).
ParseSinglePageReturns_InCompletionOrder ==
    /\ parse_pc = "parsing"
    /\ \E page_idx \in 1..Len(page_results), result \in FragmentChoices :
          /\ page_idx \in in_flight
          /\ in_flight' = in_flight \ {page_idx}
          /\ \E slot \in 1..Len(page_results) :
                /\ page_results[slot] = <<>>
                /\ \A other \in 1..(slot - 1) : page_results[other] # <<>>
                /\ page_results' = [page_results EXCEPT
                                       ![slot] = <<[result EXCEPT !.page_number = Num(page_idx)]>>]
    /\ UNCHANGED <<aux_vars, conv_vars, max_workers, merged, parse_pc>>

\* parse_single_page returns the dict the LLM answered, page_number set.
ParseSinglePageReturns ==
    /\ parse_pc = "parsing"
    /\ \E page_idx \in 1..Len(page_results), result \in FragmentChoices :
          /\ page_idx \in in_flight
          /\ in_flight' = in_flight \ {page_idx}
          /\ page_results' = [page_results EXCEPT
                                 ![page_idx] = <<[result EXCEPT !.page_number = Num(page_idx)]>>]
    /\ UNCHANGED <<aux_vars, conv_vars, max_workers, merged, parse_pc>>

\* _call_llm or _extract_json_from_response raises inside parse_single_page.
ParseSinglePageFails ==
    /\ parse_pc = "parsing"
    /\ \E page_idx \in 1..Len(page_results), text \in ExceptionTexts :
          /\ page_idx \in in_flight
          /\ in_flight' = in_flight \ {page_idx}
          /\ page_results' = [page_results EXCEPT
                                 ![page_idx] = <<ErrorPage(page_idx, Str("error"), Str(text))>>]
    /\ UNCHANGED <<aux_vars, conv_vars, max_workers, merged, parse_pc>>

\* future.result() raises: the task died outside the try of parse_single_page.
PageFutureRaises ==
    /\ parse_pc = "parsing"
    /\ \E page_idx \in 1..Len(page_results), text \in ExceptionTexts :
          /\ page_idx \in in_flight
          /\ in_flight' = in_flight \ {page_idx}
          /\ page_results' = [page_results EXCEPT
                                 ![page_idx] = <<ErrorPage(page_idx, SAbsent, Str(text))>>]
    /\ UNCHANGED <<aux_vars, conv_vars, max_workers, merged, parse_pc>>

\* parse_single_page returns a JSON object of the wrong shape: its
\* "relatives" is a list that holds a string instead of an object
\* (misshapen names the list fields whose items are not objects).
ParseSinglePageMisshapen ==
    /\ parse_pc = "parsing"
    /\ \E page_idx \in 1..Len(page_results) :
          /\ page_idx \in in_flight
          /\ in_flight' = in_flight \ {page_idx}
          /\ page_results' =
                [page_results EXCEPT
                    ![page_idx] =
                        <<[Fragment(Str("relatives"), SAbsent, <<>>, <<>>, <<>>, <<>>, <<>>, <<>>)
                             EXCEPT !.page_number = Num(page_idx),
                                    !.misshapen = {"relatives"}]>>]
    /\ UNCHANGED <<aux_vars, conv_vars, max_workers, merged, parse_pc>>

\* The fragments in page order, once every slot is filled.
FragmentsOf(results) == [i \in 1..Len(results) |-> results[i][1]]

\* merge_parsed_pages raises: rel.get of _dedupe_relatives (or asset["index"]
\* of the re-indexing) meets an item that is not an object, in a fragment
\* the loop did not skip.
MergeRaises(results) ==
    \E i \in 1..Len(results) :
        /\ ~SkippedByMerge(results[i])
        /\ results[i].misshapen \cap {"relatives", "assets"} # {}

\* The slots that hold a fragment or a marker, in page order.
Filled(results) == SelectSeq(results, LAMBDA slot : slot # <<>>)

\* A merge that does not wait for the page tasks.
MergePages_NoBarrier ==
    /\ parse_pc = "parsing"
    /\ merged' = <<merge_parsed_pages(FragmentsOf(Filled(page_results)), "D1", 1)>>
    /\ parse_pc' = "merged"
    /\ UNCHANGED <<aux_vars, conv_vars, in_flight, max_workers, page_results>>

\* The with-block of the executor is left (as_completed has yielded every
\* future and shutdown(wait=True) has joined the workers); then
\* return self.merge_parsed_pages(page_results, doc_id, nacc_id)
MergePages ==
    /\ parse_pc = "parsing"
    /\ in_flight = {}
    /\ \A page_idx \in 1..Len(page_results) : page_results[page_idx] # <<>>
    /\ ~MergeRaises(FragmentsOf(page_results))
    /\ merged' = <<merge_parsed_pages(FragmentsOf(page_results), "D1", 1)>>
    /\ parse_pc' = "merged"
    /\ UNCHANGED <<aux_vars, conv_vars, in_flight, max_workers, page_results>>

\* The same call raises (AttributeError, TypeError): nothing is returned
\* and the exception leaves parse_document_page_by_page.
MergePagesRaises ==
    /\ parse_pc = "parsing"
    /\ in_flight = {}
    /\ \A page_idx \in 1..Len(page_results) : page_results[page_idx] # <<>>
    /\ MergeRaises(FragmentsOf(page_results))
    /\ parse_pc' = "raised"
    /\ UNCHANGED <<aux_vars, conv_vars, in_flight, max_workers, page_results, merged>>

NextMerge ==
    \/ ParseSinglePageReturns
    \/ ParseSinglePageFails
    \/ ParseSinglePageMisshapen
    \/ PageFutureRaises
    \/ MergePages
    \/ MergePagesRaises

SpecMerge == InitMerge /\ [][NextMerge]_vars

\* The same document parsed on a pool of any width: the page tasks are
\* submitted and none is taken yet.
InitPool ==
    /\ converter = ConverterInit
    /\ sql = [status |-> "none", rows |-> <<>>]
    /\ conv_pc = "none"
    /\ calls = <<>>
    /\ json_dir = [name \in JsonNames |-> <<>>]
    /\ pfd = [pc |-> "none", i |-> 0, processed_count |-> 0, missing_json |-> <<>>]
    /\ \E total_pages \in 0..MaxPoolPages : page_results = [i \in 1..total_pages |-> <<>>]
    /\ merged = <<>>
    /\ parse_pc = "parsing"
    /\ in_flight = {}
    /\ max_workers \in 1..MaxWorkers
    /\ AuxIdle

NextPool == StartPageTask \/ NextMerge

SpecPool == InitPool /\ [][NextPool]_vars

\* The canonical document merge_parsed_pages returns when no fragment was
\* usable, as json.dump writes it and json.load reads it back: both infos
\* null, the four lists empty.
FailedDocOf(m) ==
    Doc(m.doc_id, m.nacc_id, NoInfo, NoInfo, m.relatives, m.statements,
        m.statement_details, m.assets)

\* converter.process_document(parsed_data) on the document of a parse that
\* found zero usable fragments.
NormalizeFailedDocument ==
    /\ parse_pc = "merged"
    /\ merged[1].extraction_status = "failed"
    /\ LET parsed_data == FailedDocOf(merged[1])
       IN /\ converter' = process_document(converter, parsed_data, <<>>, <<>>, <<>>)
          /\ calls' = Append(calls, CallRecord(converter, parsed_data, <<>>, <<>>, <<>>))
    /\ parse_pc' = "normalized"
    /\ UNCHANGED <<aux_vars, sql, conv_pc, json_dir, pfd, page_results, merged,
                   in_flight, max_workers>>

NextFailedDoc == NextPool \/ NormalizeFailedDocument

SpecFailedDoc == InitPool /\ [][NextFailedDoc]_vars

-----------------------------------------------------------------------------
(* Properties of the merger *)

Fragments == FragmentsOf(page_results)

\* A fragment carries an error marker when it has an error key.
HasErrorMarker(f) == f.error # SAbsent

CleanFragments == SelectSeq(Fragments, LAMBDA f : ~HasErrorMarker(f))

MarkerFragments == SelectSeq(Fragments, HasErrorMarker)

\* C6: the confidence score of the merged document is the number of
\* fragments without an error marker over the number of fragments, and the
\* merge of no fragment at all has confidence 0 and status "failed".
C6_ConfidenceIsCleanFraction ==
    parse_pc = "merged" =>
        LET score == merged[1].confidence_score
        IN /\ score.num * Len(Fragments) = Len(CleanFragments) * score.den
           /\ Len(Fragments) = 0 =>
                 /\ score.num = 0
                 /\ merged[1].extraction_status = "failed"

\* C7: the status is "failed" exactly when no fragment extracted without
\* error, "success" exactly when every fragment of a non-empty sequence did,
\* and "partial" in every other case.
C7_StatusByCleanFragments ==
    parse_pc = "merged" =>
        LET status == merged[1].extraction_status
            clean == Len(CleanFragments)
            total == Len(Fragments)
        IN /\ status \in {"failed", "success", "partial"}
           /\ status = "failed" <=> clean = 0
           /\ status = "success" <=> (total > 0 /\ clean = total)

\* The rows of a list field that the fragments of fs carry.
RowsCarried(fs, field) ==
    UNION {{fs[i][field][n] : n \in 1..Len(fs[i][field])} : i \in 1..Len(fs)}

RowCount(fs, field) == SumSeq([i \in 1..Len(fs) |-> Len(fs[i][field])])

\* The values of a key that the info dicts of the fragments of fs carry.
InfoValuesCarried(fs, which, key) ==
    {fs[i][which][1][key] : i \in {n \in 1..Len(fs) : fs[n][which] # <<>>}}

\* C8: a fragment with an error marker is counted as a page but not as a
\* successful one, and nothing it carries reaches the merged document.
C8_ErrorMarkersExcluded ==
    parse_pc = "merged" =>
        LET m == merged[1]
            score == m.confidence_score
        IN /\ score.num * Len(Fragments)
                <= (Len(Fragments) - Len(MarkerFragments)) * score.den
           /\ MarkerFragments # <<>> => m.extraction_status # "success"
           /\ Len(m.assets) = RowCount(CleanFragments, "assets")
           /\ \A k \in 1..Len(m.assets) :
                 \E row \in RowsCarried(CleanFragments, "assets") :
                     [m.assets[k] EXCEPT !.index = NAbsent] = [row EXCEPT !.index = NAbsent]
           /\ \A k \in 1..Len(m.relatives) :
                 \E row \in RowsCarried(CleanFragments, "relatives") :
                     [m.relatives[k] EXCEPT !.index = NAbsent] = [row EXCEPT !.index = NAbsent]
           /\ Len(m.statement_details) = RowCount(CleanFragments, "statement_details")
           /\ \A k \in 1..Len(m.statements) :
                 m.statements[k] \in RowsCarried(CleanFragments, "statements")
           /\ \A which \in {"submitter_info", "spouse_info"} :
                 IF m[which] = <<>>
                 THEN \A i \in 1..Len(CleanFragments) : CleanFragments[i][which] = <<>>
                 ELSE \A key \in ScalarInfoKeys :
                         \/ IsNone(m[which][1][key])
                         \/ m[which][1][key] \in InfoValuesCarried(CleanFragments, which, key)

\* The non-null values of a scalar field over the fragments without an
\* error marker, in page order.
NonNullValues(which, key) ==
    LET carriers == SelectSeq(CleanFragments, LAMBDA f : f[which] # <<>>)
    IN SelectSeq([i \in 1..Len(carriers) |-> carriers[i][which][1][key]],
                 LAMBDA v : ~IsNone(v))

\* The claim as stated on C9: each scalar field of the merged submitter_info
\* and spouse_info is the first non-null value of the field in page order.
C9_FirstNonNullWins ==
    parse_pc = "merged" =>
        \A which \in {"submitter_info", "spouse_info"} :
            merged[1][which] # <<>> =>
                \A key \in ScalarInfoKeys :
                    LET values == NonNullValues(which, key)
                    IN IF values = <<>> THEN IsNone(merged[1][which][1][key])
                       ELSE merged[1][which][1][key] = values[1]

\* The first value of a sequence of non-null values, unless it is falsy and
\* a non-empty string follows it: then the first such string.
FirstKept(values) ==
    LET strings == {i \in 2..Len(values) : values[i][1] = "str" /\ values[i][2] # ""}
    IN IF Truthy(values[1]) \/ strings = {} THEN values[1]
       ELSE values[CHOOSE i \in strings : \A j \in strings : i <= j]

\* C9 (amended): each scalar field of the merged submitter_info and
\* spouse_info is the first non-null value of the field in page order,
\* unless that value is falsy (empty string, 0): a falsy value gives way to
\* the first later non-empty string, and stays if there is none.  The info
\* is None exactly when no fragment without an error marker carries one.
C9_FirstNonNullUnlessFalsy ==
    parse_pc = "merged" =>
        \A which \in {"submitter_info", "spouse_info"} :
            /\ merged[1][which] = <<>>
                  <=> \A i \in 1..Len(CleanFragments) : CleanFragments[i][which] = <<>>
            /\ merged[1][which] # <<>> =>
                  \A key \in ScalarInfoKeys :
                      LET values == NonNullValues(which, key)
                      IN IF values = <<>> THEN IsNone(merged[1][which][1][key])
                         ELSE merged[1][which][1][key] = FirstKept(values)

\* Page 1 sets the title and leaves first_name null, page 2 sets first_name
\* and an empty title, page 3 has a later title: both fields are set, and
\* the first title stays.
C9_Witness ==
    /\ parse_pc = "merged"
    /\ Len(Fragments) = 3
    /\ Fragments[1].submitter_info = PageInfo(Str("Mr"), SNull, NNull, List(<<"Old1">>))
    /\ Fragments[2].submitter_info = PageInfo(SNull, Str("Ann"), Num(0), LNull)
    /\ Fragments[3].submitter_info = PageInfo(Str("Ms"), Str(""), Num(40), List(<<"Old2">>))
    /\ merged[1].submitter_info[1].title = Str("Mr")
    /\ merged[1].submitter_info[1].first_name = Str("Ann")
    /\ merged[1].submitter_info[1].age = Num(0)

RECURSIVE Concat(_)
Concat(lists) == IF lists = <<>> THEN <<>> ELSE Head(lists) \o Concat(Tail(lists))

\* The relatives of the fragments without an error marker, in fragment order.
RelativesSeen == Concat([i \in 1..Len(CleanFragments) |-> CleanFragments[i].relatives])

\* The places of RelativesSeen whose key no earlier place has.
FirstOccurrences ==
    {i \in 1..Len(RelativesSeen) :
        \A j \in 1..(i - 1) : RelativeKey(RelativesSeen[j]) # RelativeKey(RelativesSeen[i])}

\* C10: the merged relatives have pairwise distinct keys (first_name,
\* last_name, relationship_id; a missing name reads as ""), and they are
\* the first occurrences of the keys, in the order the fragments gave them.
C10_RelativesFirstOccurrenceInOrder ==
    parse_pc = "merged" =>
        LET relatives == merged[1].relatives
        IN /\ \A i, j \in 1..Len(relatives) :
                 RelativeKey(relatives[i]) = RelativeKey(relatives[j]) => i = j
           /\ Len(relatives) = Cardinality(FirstOccurrences)
           /\ \A p \in FirstOccurrences :
                 LET k == Cardinality({q \in FirstOccurrences : q <= p})
                 IN [relatives[k] EXCEPT !.index = NAbsent]
                        = [RelativesSeen[p] EXCEPT !.index = NAbsent]

\* A key met on two pages, between them another relative: the first record
\* of the key ("a", not "e") is the one kept, and it stays first.
C10_Witness ==
    /\ parse_pc = "merged"
    /\ Len(RelativesSeen) = 3
    /\ RelativesSeen[1].title = Str("a")
    /\ RelativesSeen[2].title = Str("d")
    /\ RelativesSeen[3].title = Str("e")
    /\ Len(merged[1].relatives) = 2
    /\ merged[1].relatives[1].title = Str("a")
    /\ merged[1].relatives[2].title = Str("d")

\* The statements of the fragments without an error marker, in fragment order.
StatementsSeen == Concat([i \in 1..Len(CleanFragments) |-> CleanFragments[i].statements])

\* The place of the statement that stands for a type: the greatest number
\* of non-null fields among the statements of the type, the earliest of them.
BestOfType(type_id) ==
    LET ofType == {i \in 1..Len(StatementsSeen) :
                      StatementTypeOf(StatementsSeen[i]) = type_id}
        fullest == {i \in ofType :
                      \A j \in ofType :
                          NonNullCount(StatementsSeen[j]) <= NonNullCount(StatementsSeen[i])}
    IN CHOOSE i \in fullest : \A j \in fullest : i <= j

\* C11: the merged document holds one statement per statement_type_id met
\* in the fragments and no other; for each type it is the statement with
\* the most non-null fields, the earliest in fragment order among equals.
C11_StatementsFullestFirst ==
    parse_pc = "merged" =>
        LET statements == merged[1].statements
            types == {StatementTypeOf(StatementsSeen[i]) : i \in 1..Len(StatementsSeen)}
        IN /\ \A i, j \in 1..Len(statements) :
                 StatementTypeOf(statements[i]) = StatementTypeOf(statements[j]) => i = j
           /\ {StatementTypeOf(statements[i]) : i \in 1..Len(statements)} = types
           /\ \A i \in 1..Len(statements) :
                 statements[i] = StatementsSeen[BestOfType(StatementTypeOf(statements[i]))]

\* Type 1 on three pages with 2, 3 and 3 non-null fields: the second
\* statement replaces the first and the third, its equal, does not.
C11_Witness ==
    /\ parse_pc = "merged"
    /\ Len(StatementsSeen) = 5
    /\ StatementsSeen[1] = Statement(Num(1), Num(10), NNull, NNull)
    /\ StatementsSeen[2] = Statement(Num(1), Num(20), Num(5), NAbsent)
    /\ StatementsSeen[5] = Statement(Num(1), Num(30), Num(6), NNull)
    /\ merged[1].statements[1] = Statement(Num(1), Num(20), Num(5), NAbsent)
    /\ Len(merged[1].statements) = 3

-----------------------------------------------------------------------------
(* Properties of the surrogate keys and of the writes of one call *)

\* The submitter_id the k-th call worked with.
SubmitterIdOfCall(k) ==
    IF calls[k].submitter_id_arg # <<>> THEN calls[k].submitter_id_arg[1]
    ELSE calls[k].before["submitter_id_counter"]

DistinctKeys(rows, key) ==
    \A i, j \in 1..Len(rows) : rows[i][key] = rows[j][key] => i = j

KeysNeverReused ==
    /\ DistinctKeys(converter.assets, "asset_id")
    /\ DistinctKeys(converter.relative_infos, "relative_id")
    /\ DistinctKeys(converter.spouse_infos, "spouse_id")

CountersNeverDecrease ==
    \A k \in 1..Len(calls) :
        \A name \in CounterNames : calls[k].before[name] <= MarksAfterCall(k)[name]

\* The claim as stated on C12: no surrogate key is reused, no two calls use
\* the same submitter_id, whether it was supplied or taken from the
\* counter, and no counter decreases.
C12_NoKeyReused ==
    /\ KeysNeverReused
    /\ CountersNeverDecrease
    /\ \A k, l \in 1..Len(calls) : SubmitterIdOfCall(k) = SubmitterIdOfCall(l) => k = l

\* C12 (amended): asset_id, relative_id and spouse_id are never reused, no
\* counter decreases, and no two calls that leave submitter_id out use the
\* same submitter_id; a supplied submitter_id is used as given.
C12_NoCounterKeyReused ==
    /\ KeysNeverReused
    /\ CountersNeverDecrease
    /\ \A k, l \in 1..Len(calls) :
          (/\ calls[k].submitter_id_arg = <<>>
           /\ calls[l].submitter_id_arg = <<>>
           /\ SubmitterIdOfCall(k) = SubmitterIdOfCall(l)) => k = l

\* A call that raised after its spouse and relative rows, then a call on a
\* document with a spouse and two relatives, neither with a submitter_id.
C12_Witness ==
    /\ Len(calls) = 2
    /\ Raises(calls[1].parsed_data)
    /\ calls[2].submitter_id_arg = <<>>
    /\ Len(converter.spouse_infos) = 2
    /\ Len(converter.relative_infos) = 3
    /\ converter.submitter_id_counter = 3

\* The rows a document gives rise to in the accumulators that take one row
\* per item of the document.
RowsDue(parsed_data, name) ==
    CASE name = "submitter_infos" -> Len(parsed_data.submitter_info)
      [] name = "spouse_infos" -> Len(parsed_data.spouse_info)
      [] name = "relative_infos" -> Len(parsed_data.relatives)
      [] name = "statements" -> Len(parsed_data.statements)
      [] name = "statement_details" -> Len(parsed_data.statement_details)
      [] name = "assets" -> Len(parsed_data.assets)
      [] name = "summaries" -> 1

\* C14: a call either appends every row of its document, its summary row
\* included, or, when it raises, leaves no row of the document in any
\* accumulator.
C14_AllOrNothing ==
    \A k \in 1..Len(calls) :
        IF Raises(calls[k].parsed_data)
        THEN \A name \in AccumulatorNames : RowsOfCall(name, k) = {}
        ELSE \A name \in {"submitter_infos", "spouse_infos", "relative_infos", "statements",
                          "statement_details", "assets", "summaries"} :
                 Cardinality(RowsOfCall(name, k)) = RowsDue(calls[k].parsed_data, name)

-----------------------------------------------------------------------------
(* The driver (app.py): Phase 3 runs process_single_document for every     *)
(* document of the registry, in the main thread or on a pool of            *)
(* LLM_PARALLEL_DOCS workers; Phase 4 then builds the converter and runs   *)
(* process_from_doc_info.  doc_status[d] is "queued", "running", or the    *)
(* status process_single_document returned; writers is the set of          *)
(* documents whose process_document call is in progress.  The file names   *)
(* of the registry rows play no part in these two phases taken as wholes.  *)

InitDriver ==
    /\ converter = ConverterInit
    /\ sql = [status |-> "none", rows |-> <<>>]
    /\ conv_pc = "none"
    /\ calls = <<>>
    /\ json_dir = [name \in JsonNames |-> <<>>]
    /\ pfd = [pc |-> "none", i |-> 0, processed_count |-> 0, missing_json |-> <<>>]
    /\ ParserIdle
    /\ ClockIdle /\ OcrIdle /\ ProfileIdle
    /\ \E n \in 1..MaxDocs : doc_status = [d \in 1..n |-> "queued"]
    /\ driver_pc = "phase3"
    /\ writers = {}
    /\ parallel_docs \in 1..MaxParallelDocs
    /\ registry = <<>>

Running == {d \in 1..Len(doc_status) : doc_status[d] = "running"}

Queued == {d \in 1..Len(doc_status) : doc_status[d] = "queued"}

\* process_single_document(doc_info) starts: the next document in registry
\* order, in the main thread (LLM_PARALLEL_DOCS <= 1) or in a free worker.
StartDocWorker ==
    /\ driver_pc = "phase3"
    /\ Queued # {}
    /\ Cardinality(Running) < parallel_docs
    /\ LET d == CHOOSE q \in Queued : \A o \in Queued : q <= o
       IN doc_status' = [doc_status EXCEPT ![d] = "running"]
    /\ UNCHANGED <<conv_vars, parse_vars, clock_vars, driver_pc, writers,
                   parallel_docs, registry, ocr, profile>>

\* process_single_document returns its status: the JSON file existed
\* ("skipped"), was written ("success"), or could not be produced ("error").
FinishDocWorker ==
    /\ driver_pc = "phase3"
    /\ \E d \in Running, status \in {"skipped", "success", "error"} :
          doc_status' = [doc_status EXCEPT ![d] = status]
    /\ UNCHANGED <<conv_vars, parse_vars, clock_vars, driver_pc, writers,
                   parallel_docs, registry, ocr, profile>>

\* A Phase 4 that does not wait for the workers of Phase 3.
StartPhase4_NoJoin ==
    /\ driver_pc = "phase3"
    /\ driver_pc' = "phase4"
    /\ pfd' = [pfd EXCEPT !.pc = "loop", !.i = 1]
    /\ UNCHANGED <<converter, sql, conv_pc, calls, json_dir, parse_vars, clock_vars,
                   doc_status, writers, parallel_docs, registry, ocr, profile>>

\* The loop of Phase 3 is over (the with-block of the executor has joined
\* its workers); Phase 4 creates the converter and enters the loop of
\* process_from_doc_info.
StartPhase4 ==
    /\ driver_pc = "phase3"
    /\ Queued = {}
    /\ Running = {}
    /\ driver_pc' = "phase4"
    /\ pfd' = [pfd EXCEPT !.pc = "loop", !.i = 1]
    /\ UNCHANGED <<converter, sql, conv_pc, calls, json_dir, parse_vars, clock_vars,
                   doc_status, writers, parallel_docs, registry, ocr, profile>>

\* The loop is at a document whose JSON file exists: self.process_document
\* is entered.
BeginProcessDocument ==
    /\ driver_pc = "phase4"
    /\ pfd.pc = "loop"
    /\ pfd.i <= Len(doc_status)
    /\ writers = {}
    /\ doc_status[pfd.i] \in {"skipped", "success"}
    /\ writers' = writers \cup {pfd.i}
    /\ UNCHANGED <<conv_vars, parse_vars, clock_vars, doc_status, driver_pc,
                   parallel_docs, registry, ocr, profile>>

\* self.process_document returns (or raises into the except of the loop):
\* its rows are in the accumulators and the loop moves on.
EndProcessDocument ==
    /\ driver_pc = "phase4"
    /\ \E d \in writers :
          /\ converter' = process_document(converter,
                                            CHOOSE doc \in SuppliedDocChoices : TRUE,
                                            <<>>, <<"D1">>, <<d>>)
          /\ writers' = writers \ {d}
    /\ pfd' = [pfd EXCEPT !.i = @ + 1, !.processed_count = @ + 1]
    /\ UNCHANGED <<sql, conv_pc, calls, json_dir, parse_vars, clock_vars, doc_status,
                   driver_pc, parallel_docs, registry, ocr, profile>>

\* The loop is at a document whose JSON file does not exist, or past the
\* last document.
Phase4Advance ==
    /\ driver_pc = "phase4"
    /\ pfd.pc = "loop"
    /\ writers = {}
    /\ IF pfd.i > Len(doc_status)
       THEN /\ pfd' = [pfd EXCEPT !.pc = "done"]
            /\ driver_pc' = "end"
       ELSE /\ doc_status[pfd.i] \notin {"skipped", "success"}
            /\ pfd' = [pfd EXCEPT !.i = @ + 1, !.missing_json = Append(@, pfd.i)]
            /\ UNCHANGED driver_pc
    /\ UNCHANGED <<converter, sql, conv_pc, calls, json_dir, parse_vars, clock_vars,
                   doc_status, writers, parallel_docs, registry, ocr, profile>>

NextDriver ==
    \/ StartDocWorker
    \/ FinishDocWorker
    \/ StartPhase4
    \/ BeginProcessDocument
    \/ EndProcessDocument
    \/ Phase4Advance

SpecDriver == InitDriver /\ [][NextDriver]_vars

-----------------------------------------------------------------------------
(* Phase 3 of the driver step by step: process_single_document tests for   *)
(* the JSON file of its document, parses, and writes the file.  registry   *)
(* holds doc_location_url of each row of data['doc_info']; json_dir[name]  *)
(* lists the writers of a file, oldest first (0: a run before this one,    *)
(* <<>>: no such file).                                                    *)

InitArtifacts ==
    /\ converter = ConverterInit
    /\ sql = [status |-> "none", rows |-> <<>>]
    /\ conv_pc = "none"
    /\ calls = <<>>
    /\ json_dir \in [JsonNames -> {<<>>, <<0>>}]
    /\ pfd = [pc |-> "none", i |-> 0, processed_count |-> 0, missing_json |-> <<>>]
    /\ ParserIdle
    /\ ClockIdle /\ OcrIdle /\ ProfileIdle
    /\ \E n \in 1..MaxDocs :
          /\ doc_status = [d \in 1..n |-> "queued"]
          /\ registry \in [1..n -> {"a.pdf", "b.pdf"}]
    /\ driver_pc = "phase3"
    /\ writers = {}
    /\ parallel_docs \in 1..MaxParallelDocs

\* Documents whose process_single_document call is in progress.
InTask == {d \in 1..Len(doc_status) : doc_status[d] \in {"running", "parsing"}}

\* json_output_path of document d
ArtifactOf(d) == JsonFilenameOf(registry[d])

\* process_single_document(doc_info) is entered: by the main thread for the
\* next row (LLM_PARALLEL_DOCS <= 1) or by a free worker of the pool.
StartDocTask ==
    /\ driver_pc = "phase3"
    /\ Queued # {}
    /\ Cardinality(InTask) < parallel_docs
    /\ LET d == CHOOSE q \in Queued : \A o \in Queued : q <= o
       IN doc_status' = [doc_status EXCEPT ![d] = "running"]
    /\ UNCHANGED <<conv_vars, parse_vars, clock_vars, driver_pc, writers,
                   parallel_docs, registry, ocr, profile>>

\* os.path.exists(json_output_path): "skipped" when the file is there;
\* otherwise "error" when the OCR texts are missing, else the parse begins.
CheckArtifact ==
    /\ driver_pc = "phase3"
    /\ \E d \in Running :
          IF json_dir[ArtifactOf(d)] # <<>>
          THEN doc_status' = [doc_status EXCEPT ![d] = "skipped"]
          ELSE \E next \in {"error", "parsing"} :
                  doc_status' = [doc_status EXCEPT ![d] = next]
    /\ UNCHANGED <<conv_vars, parse_vars, clock_vars, driver_pc, writers,
                   parallel_docs, registry, ocr, profile>>

\* parse_document_from_files_v2 returns and open(json_output_path, 'w')
\* writes the file, replacing what the path held.
WriteArtifact ==
    /\ driver_pc = "phase3"
    /\ \E d \in 1..Len(doc_status) :
          /\ doc_status[d] = "parsing"
          /\ json_dir' = [json_dir EXCEPT ![ArtifactOf(d)] = Append(@, d)]
          /\ doc_status' = [doc_status EXCEPT ![d] = "success"]
    /\ UNCHANGED <<converter, sql, conv_pc, calls, pfd, parse_vars, clock_vars, driver_pc,
                   writers, parallel_docs, registry, ocr, profile>>

\* The parse raises: the except branch returns "error", nothing is written.
ParseDocumentFails ==
    /\ driver_pc = "phase3"
    /\ \E d \in 1..Len(doc_status) :
          /\ doc_status[d] = "parsing"
          /\ doc_status' = [doc_status EXCEPT ![d] = "error"]
    /\ UNCHANGED <<conv_vars, parse_vars, clock_vars, driver_pc, writers,
                   parallel_docs, registry, ocr, profile>>

NextArtifacts == StartDocTask \/ CheckArtifact \/ WriteArtifact \/ ParseDocumentFails

SpecArtifacts == InitArtifacts /\ [][NextArtifacts]_vars

-----------------------------------------------------------------------------
(* The OCR wrapper of app.py (ocr_function) around the configured          *)
(* collaborator.  A text is a sequence of one-character strings, so that   *)
(* str(e).lower() and the substring tests are computed.                    *)

max_retries == 5

\* What the OCR service does with one request: it answers with an HTTP
\* status, or the client library raises.  cond names the condition met.
ServerEvents ==
    {[kind |-> "http", cond |-> "ok", status |-> 200, message |-> <<>>],
     [kind |-> "http", cond |-> "http_429", status |-> 429, message |-> <<>>],
     [kind |-> "http", cond |-> "other", status |-> 500, message |-> <<>>],
     [kind |-> "exception", cond |-> "timeout", status |-> 0,
      message |-> <<"R", "e", "a", "d", " ", "t", "i", "m", "e", "o", "u", "t">>],
     [kind |-> "exception", cond |-> "rate_limit", status |-> 0,
      message |-> <<"R", "a", "t", "e", " ", "L", "i", "m", "i", "t">>],
     [kind |-> "exception", cond |-> "http_429", status |-> 0,
      message |-> <<"E", "r", "r", "o", "r", " ", "4", "2", "9">>],
     [kind |-> "exception", cond |-> "other", status |-> 0,
      message |-> <<"r", "e", "f", "u", "s", "e", "d">>]}

\* The collaborator chosen by OCR_METHOD.  "api": a status other than 200
\* is printed and None is returned; an exception of requests.post is not
\* caught.  "ollama": every exception (the client raises on a status other
\* than 200 as well) is caught, printed, and None is returned.
_ocr_function(method, ev) ==
    IF ev.kind = "http" /\ ev.status = 200
    THEN [kind |-> "return", value |-> "text", message |-> <<>>]
    ELSE IF method = "api" /\ ev.kind = "exception"
    THEN [kind |-> "raise", value |-> "", message |-> ev.message]
    ELSE [kind |-> "return", value |-> "None", message |-> <<>>]

\* error_str = str(e).lower();
\* "rate limit" in error_str or "429" in error_str or "timeout" in error_str
IsTransient(message) ==
    LET lower(ch) == CASE ch = "R" -> "r" [] ch = "L" -> "l" [] ch = "E" -> "e"
                       [] OTHER -> ch
        error_str == [i \in 1..Len(message) |-> lower(message[i])]
        in_error_str(needle) ==
            \E i \in 1..Len(error_str) :
                /\ i + Len(needle) - 1 <= Len(error_str)
                /\ SubSeq(error_str, i, i + Len(needle) - 1) = needle
    IN \/ in_error_str(<<"r", "a", "t", "e", " ", "l", "i", "m", "i", "t">>)
       \/ in_error_str(<<"4", "2", "9">>)
       \/ in_error_str(<<"t", "i", "m", "e", "o", "u", "t">>)

\* One pass of the loop "for attempt in range(max_retries)" of ocr_function,
\* the service doing ev.  met and waits record the conditions met and the
\* sleeps taken so far.
ocr_function(o, ev) ==
    LET out == _ocr_function(o.method, ev)
        seen == [o EXCEPT !.met = Append(@, ev)]
    IN IF out.kind = "return"
       THEN [seen EXCEPT !.pc = "returned", !.result = out.value]
       ELSE IF IsTransient(out.message) /\ o.attempt < max_retries - 1
       THEN [seen EXCEPT !.attempt = @ + 1, !.waits = Append(@, 2 ^ o.attempt)]
       ELSE [seen EXCEPT !.pc = "raised", !.result = out.message]

InitOcr ==
    /\ converter = ConverterInit
    /\ sql = [status |-> "none", rows |-> <<>>]
    /\ conv_pc = "none"
    /\ calls = <<>>
    /\ json_dir = [name \in JsonNames |-> <<>>]
    /\ pfd = [pc |-> "none", i |-> 0, processed_count |-> 0, missing_json |-> <<>>]
    /\ ParserIdle
    /\ ClockIdle /\ DriverIdle /\ ProfileIdle
    /\ \E method \in {"api", "ollama"} :
          ocr = [pc |-> "calling", method |-> method, attempt |-> 0, waits |-> <<>>,
                 met |-> <<>>, result |-> ""]

\* ocr_function(image_path): the next attempt.
OcrAttempt ==
    /\ ocr.pc = "calling"
    /\ \E ev \in ServerEvents : ocr' = ocr_function(ocr, ev)
    /\ UNCHANGED <<conv_vars, parse_vars, clock_vars, driver_vars, profile>>

SpecOcr == InitOcr /\ [][OcrAttempt]_vars

-----------------------------------------------------------------------------
(* The extractor profiles applied on their own to an asset name and a type *)
(* code.                                                                   *)

\* Names: null, empty, names no pattern matches, names some pattern matches.
ProfileNames ==
    {SNull, Str(""), Str("gold"), Str("car"), Str("deed 7"), Str("deed 7 2 rai Bangkok"),
     Str("condo unit 12 province Phuket"), Str("car Honda Wave plate 1234")}

\* Codes of each dispatch list, codes of none, and a null code.
ProfileTypeIds ==
    {Num(n) : n \in LandCodes \cup BuildingCodes \cup VehicleCodes \cup {5, 39}} \cup {NNull}

InitProfiles ==
    /\ converter = ConverterInit
    /\ sql = [status |-> "none", rows |-> <<>>]
    /\ conv_pc = "none"
    /\ calls = <<>>
    /\ json_dir = [name \in JsonNames |-> <<>>]
    /\ pfd = [pc |-> "none", i |-> 0, processed_count |-> 0, missing_json |-> <<>>]
    /\ ParserIdle
    /\ AuxIdle

\* self._parse_land_info / _parse_building_info / _parse_vehicle_info
\* (asset_name, asset_type_id) returns.
ApplyProfile ==
    /\ \E parser \in {"land", "building", "vehicle"},
          asset_name \in ProfileNames, asset_type_id \in ProfileTypeIds :
          profile' =
              <<[parser |-> parser, asset_name |-> asset_name,
                 asset_type_id |-> asset_type_id,
                 result |->
                     CASE parser = "land" -> _parse_land_info(asset_name, asset_type_id)
                       [] parser = "building" ->
                              _parse_building_info(asset_name, asset_type_id)
                       [] parser = "vehicle" ->
                              _parse_vehicle_info(asset_name, asset_type_id)]>>
    /\ UNCHANGED <<conv_vars, parse_vars, clock_vars, driver_vars, ocr>>

SpecProfiles == InitProfiles /\ [][ApplyProfile]_vars

-----------------------------------------------------------------------------
(* _process_assets on one asset with nested sub-objects                    *)

\* The shapes of a nested sub-object (land_info, building_info,
\* vehicle_info): missing, without its key field, with an empty or null key
\* field, and with the key field, the other field missing or given.
NestedChoices(key, other) ==
    { <<>>,
      <<(key :> SAbsent) @@ (other :> Str("X"))>>,
      <<(key :> Str("")) @@ (other :> Str("X"))>>,
      <<(key :> SNull) @@ (other :> Str("X"))>>,
      <<(key :> Str("K")) @@ (other :> SAbsent)>>,
      <<(key :> Str("K")) @@ (other :> Str("X"))>> }

NestedAssetNames ==
    {Str("deed 7 2 rai Bangkok"), Str("car Honda Wave plate 1234"), SNull}

NestedAssetChoices ==
    { [Asset(type, Num(1), TRUE, FALSE, FALSE, name) EXCEPT
          !.land_info = land, !.building_info = building, !.vehicle_info = vehicle] :
        type \in {Num(1), Num(4), Num(10), Num(37), Num(18), Num(5), Num(39), NNull},
        name \in NestedAssetNames,
        land \in NestedChoices("land_number", "land_type"),
        building \in NestedChoices("building_type", "building_name"),
        vehicle \in NestedChoices("brand", "vehicle_type") }

InitAssets ==
    /\ converter = ConverterInit
    /\ sql = [status |-> "none", rows |-> <<>>]
    /\ conv_pc = "none"
    /\ calls = <<>>
    /\ json_dir = [name \in JsonNames |-> <<>>]
    /\ pfd = [pc |-> "none", i |-> 0, processed_count |-> 0, missing_json |-> <<>>]
    /\ ParserIdle
    /\ ClockIdle
    /\ DriverIdle
    /\ OcrIdle
    /\ \E asset \in NestedAssetChoices : profile = <<[asset |-> asset, processed |-> FALSE]>>

\* self._process_assets(data, submitter_id, nacc_id) on a document of one asset.
ProcessAssetsCall ==
    /\ ~profile[1].processed
    /\ converter' = _process_assets(converter, [assets |-> <<profile[1].asset>>], 1, 1)
    /\ profile' = <<[profile[1] EXCEPT !.processed = TRUE]>>
    /\ UNCHANGED <<sql, conv_pc, calls, json_dir, pfd, parse_vars, clock_vars,
                   driver_vars, ocr>>

SpecAssets == InitAssets /\ [][ProcessAssetsCall]_vars

-----------------------------------------------------------------------------
(* Properties of the page-task barrier                                     *)

\* C15: the step that starts merge_parsed_pages is taken only when no page
\* task is in flight and every slot of page_results holds a fragment or an
\* error marker, whatever the pool width and the completion order.
C15_MergeAfterBarrier ==
    [][(parse_pc = "parsing" /\ parse_pc' = "merged")
          => /\ in_flight = {}
             /\ \A page_idx \in 1..Len(page_results) : page_results[page_idx] # <<>>]_vars

\* A merge of at least two pages run on a pool of at least two workers, one
\* page having failed.
C15_Witness ==
    /\ parse_pc = "merged"
    /\ max_workers >= 2
    /\ Len(page_results) >= 2
    /\ \E page_idx \in 1..Len(page_results) : HasErrorMarker(page_results[page_idx][1])
    /\ \E page_idx \in 1..Len(page_results) : ~HasErrorMarker(page_results[page_idx][1])

-----------------------------------------------------------------------------
(* Properties of a repeated run                                            *)

\* C13: once the second converter has been given every document the first
\* one was given, each accumulator of the second holds the same rows as the
\* first, column for column (latest_submitted_date included), whatever the
\* days on which the calls were made.
C13_RerunAppendsIdenticalRows ==
    (Len(replica) = Len(calls) + 1)
        => \A name \in AccumulatorNames :
              replica[Len(replica)][name] = converter[name]

-----------------------------------------------------------------------------
(* Properties of the driver                                                *)

\* C16: at every moment at most one process_document call is in progress
\* on the shared converter, and none is in progress while a worker of the
\* document-extraction phase is still running, whatever the width.
C16_OneWriterAtATime ==
    /\ Cardinality(writers) <= 1
    /\ (writers # {}) => (Running = {} /\ Queued = {})

\* The second document is being normalized after a run on two workers.
C16_Witness ==
    /\ parallel_docs >= 2
    /\ Len(doc_status) >= 2
    /\ writers = {2}
    /\ converter.submitter_infos # <<>>

-----------------------------------------------------------------------------
(* Properties of the OCR wrapper                                           *)

\* The condition the collaborator met in the attempt just made.
LastMet(o) == o.met[Len(o.met)]

\* C17: an attempt that meets a transient condition (rate limit, timeout,
\* HTTP 429) below the attempt ceiling is followed by a wait of 2^attempt
\* seconds and another attempt; an attempt that meets any other error ends
\* the call at once with that error.
C17_TransientRetriedWithBackoff ==
    [][(ocr.pc = "calling" /\ ocr' # ocr)
          => LET ev == LastMet(ocr')
             IN /\ (ev.cond \in {"rate_limit", "timeout", "http_429"}
                        /\ ocr.attempt < max_retries - 1)
                      => /\ ocr'.pc = "calling"
                         /\ ocr'.attempt = ocr.attempt + 1
                         /\ ocr'.waits = Append(ocr.waits, 2 ^ ocr.attempt)
                /\ (ev.kind = "exception" /\ ev.cond = "other")
                      => /\ ocr'.pc = "raised"
                         /\ ocr'.result = ev.message]_vars

-----------------------------------------------------------------------------
(* Properties of the extractor profiles                                    *)

\* The fields of each profile, as its docstring and its defaults list them.
ProfileFields(parser) ==
    CASE parser = "land" ->
            {"land_type", "land_number", "area_rai", "area_ngan", "area_sqwa", "province"}
      [] parser = "building" -> {"building_type", "building_name", "room_number", "province"}
      [] parser = "vehicle" -> {"vehicle_type", "brand", "model", "registration", "province"}

\* C18: whatever the asset name (null, empty, matching or not) and the type
\* code, the record a profile returns has every field of the profile, no
\* field is null or missing, every field is "" when the name is null or
\* empty, and every extracted field is "" when no pattern matches the name.
C18_ProfileFullyPopulated ==
    (profile # <<>>)
        => LET p == profile[1]
           IN /\ DOMAIN p.result = ProfileFields(p.parser)
              /\ \A field \in DOMAIN p.result : p.result[field][1] \notin {"null", "absent"}
              /\ ~STruthy(p.asset_name)
                    => \A field \in DOMAIN p.result : p.result[field] = Str("")
              /\ (p.asset_name = Str("gold"))
                    => \A field \in DOMAIN p.result \ {"land_type", "building_type",
                                                        "vehicle_type", "building_name"} :
                          p.result[field] = Str("")

\* The vehicle profile applied to a name that none of its patterns matches.
C18_Witness ==
    /\ profile # <<>>
    /\ profile[1].parser = "vehicle"
    /\ profile[1].asset_name = Str("gold")
    /\ profile[1].result.brand = Str("")

-----------------------------------------------------------------------------
(* Properties of a document without a detail-registry row                  *)

HasDetailRow(c, nacc_id) == \E r \in c.input_nacc_detail : r[1] = StrOf(nacc_id)

\* C19: a summary row whose nacc_id has no row in the detail registry has
\* the sentinel "NONE" in every registry-sourced field (the nd_* fields and
\* the submitter_* fields): none comes from the submitter registry row of
\* another submitter.
C19_NoDetailRowGivesSentinels ==
    \A i \in 1..Len(converter.summaries) :
        LET s == converter.summaries[i]
        IN ~HasDetailRow(converter, s.id)
              => /\ s.nd_title = "NONE"
                 /\ s.nd_first_name = "NONE"
                 /\ s.nd_last_name = "NONE"
                 /\ s.submitter_title = "NONE"
                 /\ s.submitter_first_name = "NONE"
                 /\ s.submitter_last_name = "NONE"

-----------------------------------------------------------------------------
(* Properties of the propagation of page failures                          *)

\* C20: whatever pages fail (call error, unreadable or wrongly shaped
\* answer), parse_document_page_by_page never ends with an exception: once
\* every page task is done the merge returns a document.
C20_NoFailurePastMerge == parse_pc # "raised"

-----------------------------------------------------------------------------
(* Properties of the list-valued sub-fields and of the re-indexing         *)

ListInfoKeys == InfoKeys \ ScalarInfoKeys

\* The list values of a sub-field over the fragments without an error
\* marker, in page order.
ListsSeen(which, key) ==
    LET carriers == SelectSeq(CleanFragments, LAMBDA f : f[which] # <<>>)
        values == SelectSeq([i \in 1..Len(carriers) |-> carriers[i][which][1][key]],
                            LAMBDA v : v[1] = "list")
    IN [i \in 1..Len(values) |-> values[i][2]]

\* C21: each list-valued sub-field of the merged submitter_info and
\* spouse_info is the concatenation, in page order, of the lists of that
\* sub-field in the fragments without an error marker; it is null only when
\* no such fragment carries a list.
C21_ListsConcatenated ==
    parse_pc = "merged" =>
        \A which \in {"submitter_info", "spouse_info"} :
            merged[1][which] # <<>> =>
                \A key \in ListInfoKeys :
                    IF ListsSeen(which, key) = <<>> THEN IsNone(merged[1][which][1][key])
                    ELSE merged[1][which][1][key] = List(Concat(ListsSeen(which, key)))

\* Three pages carry old_names lists of the submitter, the middle one empty.
C21_Witness ==
    /\ parse_pc = "merged"
    /\ Len(ListsSeen("submitter_info", "old_names")) = 3
    /\ merged[1].submitter_info[1].old_names = List(<<"Old1", "Old2">>)

\* C22: the index values of the merged assets are 1..n in list order and
\* those of the merged relatives are 1..m in list order, whatever index a
\* record carried in its fragment.
C22_FreshSequentialIndices ==
    parse_pc = "merged" =>
        /\ \A k \in 1..Len(merged[1].assets) : merged[1].assets[k].index = Num(k)
        /\ \A k \in 1..Len(merged[1].relatives) : merged[1].relatives[k].index = Num(k)

\* A relative that carried index 9 and an asset that carried index 7 are
\* merged, neither in the place its index named.
C22_Witness ==
    /\ parse_pc = "merged"
    /\ \E i \in 1..Len(CleanFragments) :
          \E n \in 1..Len(CleanFragments[i].relatives) :
              CleanFragments[i].relatives[n].index = Num(9)
    /\ \E i \in 1..Len(CleanFragments) :
          \E n \in 1..Len(CleanFragments[i].assets) :
              CleanFragments[i].assets[n].index = Num(7)
    /\ Len(merged[1].relatives) >= 2
    /\ Len(merged[1].assets) >= 2

-----------------------------------------------------------------------------
(* Properties of the sub-rows of an asset                                  *)

\* The sub-object has its key identifying field, not empty.
HasKeyField(nested, key) ==
    nested # <<>> /\ nested[1][key] \notin {SAbsent, SNull, Str("")}

\* The two columns of a sub-row taken from `info`, a missing one as "".
SubRowOf(info, first, second) ==
    (first :> SGet(info[first], Str(""))) @@ (second :> SGet(info[second], Str("")))

SubRowColumns(row, first, second) == (first :> row[first]) @@ (second :> row[second])

\* What the claim expects of one group: the sub-row comes from the nested
\* sub-object when it has its key field, from the profile otherwise.
ExpectedSubRow(nested, key, other, parsed) ==
    IF HasKeyField(nested, key) THEN SubRowOf(nested[1], other, key)
    ELSE SubRowOf(parsed, other, key)

\* C23: the sub-row of a land, building or vehicle asset is built from the
\* nested sub-object when that object is present with a non-empty
\* land_number, building_type or brand, and otherwise from the profile
\* applied to asset_name; an asset of no such group yields one row of the
\* other table whose description is asset_name, and no other sub-row.
C23_SubRowFromNestedOrProfile ==
    (profile # <<>> /\ profile[1].processed) =>
        LET a == profile[1].asset
            name == SGet(a.asset_name, Str(""))
            t == a.asset_type_id
        IN /\ InCodes(t, LandCodes) =>
                 /\ Len(converter.asset_land_infos) = 1
                 /\ SubRowColumns(converter.asset_land_infos[1], "land_type", "land_number")
                      = ExpectedSubRow(a.land_info, "land_number", "land_type",
                                       _parse_land_info(name, t))
           /\ InCodes(t, BuildingCodes) =>
                 /\ Len(converter.asset_building_infos) = 1
                 /\ SubRowColumns(converter.asset_building_infos[1],
                                  "building_name", "building_type")
                      = ExpectedSubRow(a.building_info, "building_type", "building_name",
                                       _parse_building_info(name, t))
           /\ InCodes(t, VehicleCodes) =>
                 /\ Len(converter.asset_vehicle_infos) = 1
                 /\ SubRowColumns(converter.asset_vehicle_infos[1], "vehicle_type", "brand")
                      = ExpectedSubRow(a.vehicle_info, "brand", "vehicle_type",
                                       _parse_vehicle_info(name, t))
           /\ ~InCodes(t, LandCodes \cup BuildingCodes \cup VehicleCodes) =>
                 /\ converter.asset_land_infos = <<>>
                 /\ converter.asset_building_infos = <<>>
                 /\ converter.asset_vehicle_infos = <<>>
                 /\ converter.asset_other_infos
                      = <<[asset_id |-> 1, nacc_id |-> 1, latest_submitted_date |-> today,
                           description |-> name]>>

\* A vehicle whose vehicle_info is present with an empty brand: the brand of
\* the row is the one the profile found in asset_name.
C23_Witness ==
    /\ profile # <<>>
    /\ profile[1].processed
    /\ profile[1].asset.asset_type_id = Num(18)
    /\ profile[1].asset.vehicle_info # <<>>
    /\ profile[1].asset.vehicle_info[1].brand = Str("")
    /\ Len(converter.asset_vehicle_infos) = 1
    /\ converter.asset_vehicle_infos[1].brand = Str("Honda")

-----------------------------------------------------------------------------
(* Properties of the registry loop when a document fails                   *)

\* The places of the registry rows the loop has passed whose JSON file was
\* found, in registry order.
OfferedPlaces ==
    SelectSeq([j \in 1..(pfd.i - 1) |-> j],
              LAMBDA j : JsonFound(DictGet(converter.input_doc_info,
                                           converter.input_doc_order[j])))

\* C24: while process_from_doc_info runs and when it has returned, the
\* documents given to process_document are those of the registry rows
\* passed so far whose file was found, in registry order, whether or not an
\* earlier one raised, and the count is the number of them that did not raise.
C24_FailedDocumentSkippedOnly ==
    pfd.pc \in {"loop", "done"} /\ pfd.i >= 1 =>
        /\ Len(calls) = Len(OfferedPlaces)
        /\ \A k \in 1..Len(calls) :
              calls[k].override_doc_id = <<converter.input_doc_order[OfferedPlaces[k]]>>
        /\ pfd.processed_count
             = Cardinality({k \in 1..Len(calls) : ~Raises(calls[k].parsed_data)})

\* The first registry row's document raised, the second row's was processed
\* after it, and the returned count is 1.
C24_Witness ==
    /\ pfd.pc = "done"
    /\ Len(calls) = 2
    /\ Raises(calls[1].parsed_data)
    /\ ~Raises(calls[2].parsed_data)
    /\ pfd.processed_count = 1
    /\ Len(converter.summaries) = 1

-----------------------------------------------------------------------------
(* Properties of the attempt ceiling of the OCR wrapper                    *)

TransientConds == {"rate_limit", "timeout", "http_429"}

\* C25: ocr_function makes at most max_retries attempts; the k-th failed
\* attempt (k = 0..3) is followed by a wait of 2^k seconds and the last
\* attempt by none; and a call all of whose attempts met a transient
\* condition ends by raising the last error, not by returning an empty
\* result.
C25_BoundedRetriesThenRaise ==
    /\ Len(ocr.met) <= max_retries
    /\ Len(ocr.waits) <= max_retries - 1
    /\ \A k \in 1..Len(ocr.waits) : ocr.waits[k] = 2 ^ (k - 1)
    /\ Len(ocr.waits) = IF ocr.pc = "calling" THEN Len(ocr.met) ELSE Len(ocr.met) - 1
    /\ (ocr.pc # "calling" /\ \A k \in 1..Len(ocr.met) : ocr.met[k].cond \in TransientConds)
          => /\ ocr.pc = "raised"
             /\ ocr.result = LastMet(ocr).message

-----------------------------------------------------------------------------
(* Properties of the normalizer on the document of a failed parse          *)

\* C26: process_document on the canonical document of zero usable
\* fragments returns, appends one summary row and no row to any other
\* accumulator, and advances the submitter_id counter only.
C26_FailedDocumentYieldsSummaryOnly ==
    parse_pc = "normalized" =>
        /\ ~Raises(calls[1].parsed_data)
        /\ \A name \in AccumulatorNames :
              Len(converter[name]) = calls[1].before[name] + (IF name = "summaries" THEN 1 ELSE 0)
        /\ \A name \in CounterNames \ {"submitter_id_counter"} :
              converter[name] = calls[1].before[name]
        /\ converter.submitter_id_counter = calls[1].before.submitter_id_counter + 1

\* Every page of a two-page document failed and the document was normalized.
C26_Witness ==
    /\ parse_pc = "normalized"
    /\ Len(page_results) = 2
    /\ merged[1].extraction_status = "failed"
    /\ merged[1].submitter_info = <<>>
    /\ merged[1].assets = <<>>
    /\ Len(converter.summaries) = 1

-----------------------------------------------------------------------------
(* Properties of the order of the exported rows                            *)

\* The call a row came from: its surrogate submitter_id, for a sub-row of
\* an asset that of the asset.  The loop gives the k-th call the key k.
CallOfRow(row) ==
    IF "submitter_id" \in DOMAIN row THEN row.submitter_id
    ELSE LET asset == CHOOSE a \in {converter.assets[i] : i \in 1..Len(converter.assets)} :
                          a.asset_id = row.asset_id
         IN asset.submitter_id

\* C27: once process_from_doc_info has returned and save_all_csv has
\* written the files, the rows of every accumulator stand grouped by
\* document in the order of the registry's rows, and the summary rows stand
\* in the order of the registry's rows.
C27_ExportsInRegistryOrder ==
    conv_pc = "saved" =>
        /\ \A name \in AccumulatorNames \ {"summaries"} :
              \A i, j \in 1..Len(converter[name]) :
                  i < j => CallOfRow(converter[name][i]) <= CallOfRow(converter[name][j])
        /\ Len(converter.summaries) = Len(calls)
        /\ \A k \in 1..Len(calls) :
              converter.summaries[k].doc_id = calls[k].override_doc_id[1]

-----------------------------------------------------------------------------
(* Properties of the JSON files of the document-extraction phase           *)

\* C28: a document whose JSON file exists is skipped; no document task is
\* parsing a document whose file exists, and no file is ever written a
\* second time, whatever the width and whatever files the rows name.
C28_ExistingArtifactLeftAlone ==
    /\ \A d \in 1..Len(doc_status) :
          /\ doc_status[d] = "skipped" => json_dir[ArtifactOf(d)] # <<>>
          /\ doc_status[d] = "parsing" => json_dir[ArtifactOf(d)] = <<>>
    /\ \A name \in JsonNames : Len(json_dir[name]) <= 1

-----------------------------------------------------------------------------
(* Properties of the order of the page results                             *)

\* The result of page i, wherever the list holds it.
ResultOfPage(i) ==
    LET slots == {k \in 1..Len(page_results) :
                     page_results[k] # <<>> /\ page_results[k][1].page_number = Num(i)}
    IN page_results[CHOOSE k \in slots : TRUE][1]

\* C29: whatever the order in which the page tasks complete, every result
\* is stored at the index of its page, and the canonical document returned
\* is the merge of the results taken in page order.
C29_MergedInPageOrder ==
    /\ \A k \in 1..Len(page_results) :
          page_results[k] # <<>> => page_results[k][1].page_number = Num(k)
    /\ parse_pc = "merged" =>
          merged[1] = merge_parsed_pages([i \in 1..Len(page_results) |-> ResultOfPage(i)],
                                         "D1", 1)

\* Two tasks run at once and the task of page 2 has completed before that
\* of page 1.
C29_Witness ==
    /\ parse_pc = "parsing"
    /\ max_workers >= 2
    /\ Len(page_results) >= 2
    /\ 1 \in in_flight
    /\ page_results[2] # <<>>
    /\ page_results[2][1].submitter_info # <<>>

-----------------------------------------------------------------------------
(* Properties of the spouse key of the summary rows                        *)

\* The nacc_id the k-th call worked with.
NaccIdOfCall(k) ==
    IF calls[k].override_nacc_id # <<>> THEN calls[k].override_nacc_id[1]
    ELSE calls[k].parsed_data.nacc_id

\* C30: the summary row of every call has spouse_id "NONE" exactly when
\* the document of the call had no spouse_info; otherwise the call appended
\* one spouse_info row, with the submitter_id and nacc_id of the call, and
\* the summary row's spouse_id is that row's spouse_id.
C30_SummarySpouseIdMatchesRow ==
    \A k \in 1..Len(calls) :
        \A i \in RowsOfCall("summaries", k) :
            LET spouse_rows == RowsOfCall("spouse_infos", k)
            IN /\ converter.summaries[i].spouse_id = NNone
                    <=> calls[k].parsed_data.spouse_info = <<>>
               /\ calls[k].parsed_data.spouse_info = <<>> => spouse_rows = {}
               /\ calls[k].parsed_data.spouse_info # <<>> =>
                     /\ Cardinality(spouse_rows) = 1
                     /\ \A j \in spouse_rows :
                           /\ converter.summaries[i].spouse_id
                                = Num(converter.spouse_infos[j].spouse_id)
                           /\ converter.spouse_infos[j].submitter_id = SubmitterIdOfCall(k)
                           /\ converter.spouse_infos[j].nacc_id = NaccIdOfCall(k)

\* Two calls on documents with a spouse: the second summary row carries
\* the second spouse key.
C30_Witness ==
    /\ Len(calls) = 2
    /\ Len(converter.summaries) = 2
    /\ Len(converter.spouse_infos) = 2
    /\ converter.summaries[2].spouse_id = Num(2)
    /\ converter.spouse_infos[2].spouse_id = 2

====
